---- MODULE Spec2Model ----
(***************************************************************************)
(* Model of waf-bedrock-analyzer (Go): the Athena query executor           *)
(* (runAthenaQuery with its polling goroutine), the SQL helpers it calls,  *)
(* and the Lambda handler with its three process-wide dedup caches.        *)
(*                                                                         *)
(* SQL texts, messages and keys are TLA+ strings that hold the bytes of the *)
(* Go strings; TLC evaluates Len, SubSeq and \o on strings, so the string   *)
(* functions of the Go standard library are written byte by byte and rune  *)
(* by rune.                                                                *)
(***************************************************************************)
EXTENDS Integers, Sequences, FiniteSets, TLC

VARIABLES
    \* ---- one runAthenaQuery invocation ---------------------------------
    query,        \* the SQL text passed to runAthenaQuery
    parentDone,   \* the caller's ctx is cancelled
    mpc,          \* position of the calling goroutine
    ppc,          \* position of the polling goroutine
    ctxErr,       \* queryContext.Err(): "" while the context is live
    doneCh,       \* doneCh is closed
    tickC,        \* ticks buffered in ticker.C (capacity 1)
    errorMsg,     \* the variable errorMsg shared by the two goroutines
    state,        \* the variable state shared by the two goroutines
    attempts,     \* the polling goroutine's counter
    region,       \* the region selected for this query
    qid,          \* the execution id
    calls,        \* backend calls issued so far, in order
    statusLog,    \* what each returned GetQueryExecution call answered
    ctxAtFetch,   \* for each status fetch, queryContext.Err() when it was issued
    nextToken,    \* whether the fetched result page carried a NextToken
    ret,          \* what runAthenaQuery returned (NotReturned before)
    \* ---- the process: its globals and the handler invocations ----------
    processedEvents,     \* the keys of the map processedEvents
    recentQueries,       \* the map recentQueries: key -> time recorded
    recentSlackMessages, \* the map recentSlackMessages: key -> time recorded
    slackToken,          \* the global slackToken, set by init()
    showSqlInSlack,      \* the global showSqlInSlack, set from the environment
    showQueryIdInSlack,  \* the global showQueryIdInSlack, set likewise
    now,                 \* the clock, in seconds
    hpc,                 \* position of the handler ("idle" between invocations)
    invocations,         \* handler invocations started so far
    req,                 \* the request of the current (or last) invocation
    sql,                 \* the SQL text callBedrock returned
    run,                 \* what runAthenaQuery returned to the handler
    slackMsg,            \* the message the handler built for postToSlack
    effects,             \* calls the invocation made to other components
    resp,                \* the response the invocation returned
    processedSinceClear, \* events processed since processedEvents was cleared
    reprocessed,         \* events processed more than once since then
    dropped,             \* entries the size limits removed in this invocation
    \* ---- preprocessSqlQuery applied to a text, pass after pass ----------
    rewriteInput,        \* the text given to the first pass
    rewritten,           \* the text after the passes made so far
    passes,              \* how many times preprocessSqlQuery was applied
    \* ---- one call of a result formatter --------------------------------
    resultRows,          \* the rows given to the formatter
    formatMode,          \* which formatter ran ("none" before the call)
    colIndices,          \* the formatter's colIndices, 1-based
    formatted            \* the text the formatter returned

qvars == <<query, parentDone, mpc, ppc, ctxErr, doneCh, tickC, errorMsg, state,
           attempts, region, qid, calls, statusLog, ctxAtFetch, nextToken, ret>>

hvars == <<processedEvents, recentQueries, recentSlackMessages, slackToken,
           showSqlInSlack, showQueryIdInSlack, now,
           hpc, invocations, req, sql, run, slackMsg, effects, resp,
           processedSinceClear, reprocessed, dropped>>

rvars == <<rewriteInput, rewritten, passes>>

fvars == <<resultRows, formatMode, colIndices, formatted>>

vars == <<qvars, hvars, rvars, fvars>>

----------------------------------------------------------------------------
(* Strings                                                                 *)

\* Texts are Go strings, sequences of bytes. A text of the model is a TLA+
\* string whose characters stand for the bytes: an ASCII character for its
\* byte, and the characters U+FF80 to U+FFFF for the bytes 0x80 to 0xFF (the
\* module is read as UTF-8; TLC keeps the low byte of a character of a
\* state it stores, and these are the characters that come back as they
\* were). Len is the len of Go, in bytes, and SubSeq slices bytes. A
\* character outside ASCII is written by its UTF-8 encoding: EncodeRune(233)
\* is the two bytes of U+00E9, and CharAt(HighBytes, 128) is the byte 0xFF.
\* The byte 0x00 is not written.

\* the bytes 0x80 to 0xFF, in order
HighBytes == "ﾀﾁﾂﾃﾄﾅﾆﾇﾈﾉﾊﾋﾌﾍﾎﾏﾐﾑﾒﾓﾔﾕﾖﾗﾘﾙﾚﾛﾜﾝﾞﾟﾠﾡﾢﾣﾤﾥﾦﾧﾨﾩﾪﾫﾬﾭﾮﾯﾰﾱﾲﾳﾴﾵﾶﾷﾸﾹﾺﾻﾼﾽﾾ﾿￀￁ￂￃￄￅￆￇ￈￉ￊￋￌￍￎￏ￐￑ￒￓￔￕￖￗ￘￙ￚￛￜ￝￞￟￠￡￢￣￤￥￦￧￨￩￪￫￬￭￮￯￰￱￲￳￴￵￶￷￸￹￺￻￼�￾￿"

CharAt(s, i) == SubSeq(s, i, i)

\* the bytes of utf8.RuneSelf and above, those that are no ASCII
HighChars == { CharAt(HighBytes, k) : k \in 1..128 }

\* the value of the byte c when it is 0x80 or more, and 0 for an ASCII byte
HighByte(c) ==
    IF c \in HighChars
    THEN 127 + CHOOSE k \in 1..128 : CharAt(HighBytes, k) = c
    ELSE 0

\* utf8.DecodeRuneInString(s[i-1:]) at a byte of 0x80 or more: the rune and
\* its width in bytes. The first byte selects the width and the range of the
\* second byte (C2-DF: 80-BF; E0: A0-BF; E1-EC, EE, EF: 80-BF; ED: 80-9F;
\* F0: 90-BF; F1-F3: 80-BF; F4: 80-8F), the bytes after it are 80-BF; any
\* other byte, and a sequence cut short, is utf8.RuneError (U+FFFD, 65533)
\* of width 1
DecodeRune(s, i) ==
    LET \* the byte at position k, 0 for an ASCII byte and past the end
        ByteAt(k) == IF k <= Len(s) THEN HighByte(CharAt(s, k)) ELSE 0
        Decode(b0, b1, b2, b3) ==
            LET lo      == IF b0 = 224 THEN 160 ELSE IF b0 = 240 THEN 144 ELSE 128
                hi      == IF b0 = 237 THEN 159 ELSE IF b0 = 244 THEN 143 ELSE 191
                second  == b1 >= lo /\ b1 <= hi
                cont(b) == b >= 128 /\ b <= 191
            IN  IF b0 >= 194 /\ b0 <= 223 /\ second
                THEN [r |-> (b0 - 192) * 64 + (b1 - 128), w |-> 2]
                ELSE IF b0 >= 224 /\ b0 <= 239 /\ second /\ cont(b2)
                THEN [r |-> (b0 - 224) * 4096 + (b1 - 128) * 64 + (b2 - 128), w |-> 3]
                ELSE IF b0 >= 240 /\ b0 <= 244 /\ second /\ cont(b2) /\ cont(b3)
                THEN [r |-> (b0 - 240) * 262144 + (b1 - 128) * 4096
                            + (b2 - 128) * 64 + (b3 - 128), w |-> 4]
                ELSE [r |-> 65533, w |-> 1]
    IN  Decode(ByteAt(i), ByteAt(i + 1), ByteAt(i + 2), ByteAt(i + 3))

\* utf8.EncodeRune for a rune outside ASCII
EncodeRune(r) ==
    LET byte(n) == CharAt(HighBytes, n - 127)
    IN  IF r < 2048 THEN byte(192 + (r \div 64)) \o byte(128 + (r % 64))
        ELSE IF r < 65536
        THEN byte(224 + (r \div 4096)) \o byte(128 + ((r \div 64) % 64))
             \o byte(128 + (r % 64))
        ELSE byte(240 + (r \div 262144)) \o byte(128 + ((r \div 4096) % 64))
             \o byte(128 + ((r \div 64) % 64)) \o byte(128 + (r % 64))

\* the positions of s where a rune starts, as a range loop over s meets
\* them: every byte that a rune of two to four bytes before it does not
\* hold. The first byte of such a rune is no continuation byte, so it starts
\* a rune itself
RuneStarts(s) ==
    LET high(i)    == CharAt(s, i) \in HighChars
        held(i, p) == p >= 1 /\ high(p) /\ DecodeRune(s, p).w > i - p
    IN  { i \in 1..Len(s) :
            ~(high(i) /\ \E p \in (i - 3)..(i - 1) : held(i, p)) }

\* utf8.RuneCountInString
RuneCountInString(v) == Cardinality(RuneStarts(v))

\* the upper-case mappings of unicode.CaseRanges outside ASCII, each as
\* <<first, last, stride, delta>>: the runes first, first + stride, ... up to
\* last map to themselves plus delta
UpperRanges ==
    { <<181, 181, 1, 743>>, <<224, 246, 1, -32>>, <<248, 254, 1, -32>>,
      <<255, 255, 1, 121>>, <<257, 303, 2, -1>>, <<305, 305, 1, -232>>,
      <<307, 311, 2, -1>>, <<314, 328, 2, -1>>, <<331, 375, 2, -1>>,
      <<378, 382, 2, -1>>, <<383, 383, 1, -300>>, <<384, 384, 1, 195>>,
      <<387, 389, 2, -1>>, <<392, 392, 1, -1>>, <<396, 396, 1, -1>>,
      <<402, 402, 1, -1>>, <<405, 405, 1, 97>>, <<409, 409, 1, -1>>,
      <<410, 410, 1, 163>>, <<414, 414, 1, 130>>, <<417, 421, 2, -1>>,
      <<424, 424, 1, -1>>, <<429, 429, 1, -1>>, <<432, 432, 1, -1>>,
      <<436, 438, 2, -1>>, <<441, 441, 1, -1>>, <<445, 445, 1, -1>>,
      <<447, 447, 1, 56>>, <<453, 453, 1, -1>>, <<454, 454, 1, -2>>,
      <<456, 456, 1, -1>>, <<457, 457, 1, -2>>, <<459, 459, 1, -1>>,
      <<460, 460, 1, -2>>, <<462, 476, 2, -1>>, <<477, 477, 1, -79>>,
      <<479, 495, 2, -1>>, <<498, 498, 1, -1>>, <<499, 499, 1, -2>>,
      <<501, 501, 1, -1>>, <<505, 543, 2, -1>>, <<547, 563, 2, -1>>,
      <<572, 572, 1, -1>>, <<575, 576, 1, 10815>>, <<578, 578, 1, -1>>,
      <<583, 591, 2, -1>>, <<592, 592, 1, 10783>>, <<593, 593, 1, 10780>>,
      <<594, 594, 1, 10782>>, <<595, 595, 1, -210>>, <<596, 596, 1, -206>>,
      <<598, 599, 1, -205>>, <<601, 601, 1, -202>>, <<603, 603, 1, -203>>,
      <<604, 604, 1, 42319>>, <<608, 608, 1, -205>>, <<609, 609, 1, 42315>>,
      <<611, 611, 1, -207>>, <<613, 613, 1, 42280>>, <<614, 614, 1, 42308>>,
      <<616, 616, 1, -209>>, <<617, 617, 1, -211>>, <<618, 618, 1, 42308>>,
      <<619, 619, 1, 10743>>, <<620, 620, 1, 42305>>, <<623, 623, 1, -211>>,
      <<625, 625, 1, 10749>>, <<626, 626, 1, -213>>, <<629, 629, 1, -214>>,
      <<637, 637, 1, 10727>>, <<640, 640, 1, -218>>, <<642, 642, 1, 42307>>,
      <<643, 643, 1, -218>>, <<647, 647, 1, 42282>>, <<648, 648, 1, -218>>,
      <<649, 649, 1, -69>>, <<650, 651, 1, -217>>, <<652, 652, 1, -71>>,
      <<658, 658, 1, -219>>, <<669, 669, 1, 42261>>, <<670, 670, 1, 42258>>,
      <<837, 837, 1, 84>>, <<881, 883, 2, -1>>, <<887, 887, 1, -1>>,
      <<891, 893, 1, 130>>, <<940, 940, 1, -38>>, <<941, 943, 1, -37>>,
      <<945, 961, 1, -32>>, <<962, 962, 1, -31>>, <<963, 971, 1, -32>>,
      <<972, 972, 1, -64>>, <<973, 974, 1, -63>>, <<976, 976, 1, -62>>,
      <<977, 977, 1, -57>>, <<981, 981, 1, -47>>, <<982, 982, 1, -54>>,
      <<983, 983, 1, -8>>, <<985, 1007, 2, -1>>, <<1008, 1008, 1, -86>>,
      <<1009, 1009, 1, -80>>, <<1010, 1010, 1, 7>>, <<1011, 1011, 1, -116>>,
      <<1013, 1013, 1, -96>>, <<1016, 1016, 1, -1>>, <<1019, 1019, 1, -1>>,
      <<1072, 1103, 1, -32>>, <<1104, 1119, 1, -80>>, <<1121, 1153, 2, -1>>,
      <<1163, 1215, 2, -1>>, <<1218, 1230, 2, -1>>, <<1231, 1231, 1, -15>>,
      <<1233, 1327, 2, -1>>, <<1377, 1414, 1, -48>>, <<4304, 4346, 1, 3008>>,
      <<4349, 4351, 1, 3008>>, <<5112, 5117, 1, -8>>, <<7296, 7296, 1, -6254>>,
      <<7297, 7297, 1, -6253>>, <<7298, 7298, 1, -6244>>, <<7299, 7300, 1, -6242>>,
      <<7301, 7301, 1, -6243>>, <<7302, 7302, 1, -6236>>, <<7303, 7303, 1, -6181>>,
      <<7304, 7304, 1, 35266>>, <<7545, 7545, 1, 35332>>, <<7549, 7549, 1, 3814>>,
      <<7566, 7566, 1, 35384>>, <<7681, 7829, 2, -1>>, <<7835, 7835, 1, -59>>,
      <<7841, 7935, 2, -1>>, <<7936, 7943, 1, 8>>, <<7952, 7957, 1, 8>>,
      <<7968, 7975, 1, 8>>, <<7984, 7991, 1, 8>>, <<8000, 8005, 1, 8>>,
      <<8017, 8023, 2, 8>>, <<8032, 8039, 1, 8>>, <<8048, 8049, 1, 74>>,
      <<8050, 8053, 1, 86>>, <<8054, 8055, 1, 100>>, <<8056, 8057, 1, 128>>,
      <<8058, 8059, 1, 112>>, <<8060, 8061, 1, 126>>, <<8064, 8071, 1, 8>>,
      <<8080, 8087, 1, 8>>, <<8096, 8103, 1, 8>>, <<8112, 8113, 1, 8>>,
      <<8115, 8115, 1, 9>>, <<8126, 8126, 1, -7205>>, <<8131, 8131, 1, 9>>,
      <<8144, 8145, 1, 8>>, <<8160, 8161, 1, 8>>, <<8165, 8165, 1, 7>>,
      <<8179, 8179, 1, 9>>, <<8526, 8526, 1, -28>>, <<8560, 8575, 1, -16>>,
      <<8580, 8580, 1, -1>>, <<9424, 9449, 1, -26>>, <<11312, 11359, 1, -48>>,
      <<11361, 11361, 1, -1>>, <<11365, 11365, 1, -10795>>, <<11366, 11366, 1, -10792>>,
      <<11368, 11372, 2, -1>>, <<11379, 11379, 1, -1>>, <<11382, 11382, 1, -1>>,
      <<11393, 11491, 2, -1>>, <<11500, 11502, 2, -1>>, <<11507, 11507, 1, -1>>,
      <<11520, 11557, 1, -7264>>, <<11559, 11559, 1, -7264>>, <<11565, 11565, 1, -7264>>,
      <<42561, 42605, 2, -1>>, <<42625, 42651, 2, -1>>, <<42787, 42799, 2, -1>>,
      <<42803, 42863, 2, -1>>, <<42874, 42876, 2, -1>>, <<42879, 42887, 2, -1>>,
      <<42892, 42892, 1, -1>>, <<42897, 42899, 2, -1>>, <<42900, 42900, 1, 48>>,
      <<42903, 42921, 2, -1>>, <<42933, 42947, 2, -1>>, <<42952, 42954, 2, -1>>,
      <<42961, 42961, 1, -1>>, <<42967, 42969, 2, -1>>, <<42998, 42998, 1, -1>>,
      <<43859, 43859, 1, -928>>, <<43888, 43967, 1, -38864>>, <<65345, 65370, 1, -32>>,
      <<66600, 66639, 1, -40>>, <<66776, 66811, 1, -40>>, <<66967, 66977, 1, -39>>,
      <<66979, 66993, 1, -39>>, <<66995, 67001, 1, -39>>, <<67003, 67004, 1, -39>>,
      <<68800, 68850, 1, -64>>, <<71872, 71903, 1, -32>>, <<93792, 93823, 1, -32>>,
      <<125218, 125251, 1, -34>> }

\* unicode.ToUpper on one rune outside ASCII
UpperRune(r) ==
    LET Shifted(hits) == IF hits = {} THEN r ELSE r + (CHOOSE e \in hits : TRUE)[4]
    IN  Shifted({ e \in UpperRanges :
                    e[1] <= r /\ r <= e[2] /\ (r - e[1]) % e[3] = 0 })

LowerAlpha == "abcdefghijklmnopqrstuvwxyz"
UpperAlpha == "ABCDEFGHIJKLMNOPQRSTUVWXYZ"

\* unicode.ToUpper on one ASCII character
UpperChar(c) ==
    IF \E i \in 1..26 : CharAt(LowerAlpha, i) = c
    THEN CharAt(UpperAlpha, CHOOSE i \in 1..26 : CharAt(LowerAlpha, i) = c)
    ELSE c

\* strings.ToUpper: a text of ASCII bytes is mapped byte by byte; any other
\* text goes through strings.Map(unicode.ToUpper, s), which writes the upper
\* case of each rune, and U+FFFD for each byte that starts no valid encoding.
\* The upper case of a rune outside ASCII is outside ASCII, but for U+0131
\* and U+017F, whose upper case is the letter I and the letter S
ToUpper(s) ==
    LET RECURSIVE Bytes(_)
        \* the ASCII text t, byte by byte
        Bytes(t) ==
            IF Len(t) <= 1 THEN UpperChar(t)
            ELSE LET h == Len(t) \div 2
                 IN  Bytes(SubSeq(t, 1, h)) \o Bytes(SubSeq(t, h + 1, Len(t)))
        \* the rune u written: an ASCII letter or the encoding of u
        Written(u) == IF u < 128 THEN CharAt(UpperAlpha, u - 64) ELSE EncodeRune(u)
        \* the upper case of the rune that starts at position i
        One(i) == IF CharAt(s, i) \notin HighChars THEN UpperChar(CharAt(s, i))
                  ELSE Written(UpperRune(DecodeRune(s, i).r))
        RECURSIVE Runes(_)
        \* the runes that start at the positions in
        Runes(in) ==
            LET mid == CHOOSE m \in in :
                          Cardinality({ i \in in : i < m }) = Cardinality(in) \div 2
            IN  IF in = {} THEN ""
                ELSE IF Cardinality(in) = 1 THEN One(CHOOSE i \in in : TRUE)
                ELSE Runes({ i \in in : i < mid }) \o Runes({ i \in in : i >= mid })
    IN  IF \A i \in 1..Len(s) : CharAt(s, i) \notin HighChars
        THEN Bytes(s)
        ELSE Runes(RuneStarts(s))

\* strings.HasPrefix
HasPrefix(s, p) == Len(p) <= Len(s) /\ SubSeq(s, 1, Len(p)) = p

\* strings.Index, 1-based; 0 when sub does not occur
Index(s, sub) ==
    IF \E i \in 1..(Len(s) - Len(sub) + 1) : SubSeq(s, i, i + Len(sub) - 1) = sub
    THEN CHOOSE i \in 1..(Len(s) - Len(sub) + 1) :
            /\ SubSeq(s, i, i + Len(sub) - 1) = sub
            /\ \A j \in 1..(i - 1) : SubSeq(s, j, j + Len(sub) - 1) # sub
    ELSE 0

\* strings.Contains
Contains(s, sub) == Index(s, sub) # 0

\* the runes of unicode.IsSpace in UTF-8: \t, \n, \v, \f, \r and the space,
\* U+0085, U+00A0, U+1680, U+2000 to U+200A, U+2028, U+2029, U+202F, U+205F
\* and U+3000. TLA+ has no escape for \v (0x0B), so the third string holds
\* the byte itself.
SpaceEncodings ==
    {"\t", "\n", "", "\f", "\r", " "}
    \cup { EncodeRune(r) : r \in {133, 160, 5760, 8232, 8233, 8239, 8287, 12288}
                                 \cup 8192..8202 }

\* strings.TrimSpace: the runes of unicode.IsSpace are cut from the front
\* and then from the back. A rune is read at the front, and at the back, of
\* what is left: a byte that belongs to no valid encoding is no white space
\* and ends the cutting
TrimSpace(s) ==
    LET \* the length of the white space in the set found, 0 when there is none
        Width(found) == IF found = {} THEN 0 ELSE Len(CHOOSE e \in found : TRUE)
        RECURSIVE Front(_, _)
        \* the first position from i on that starts no white space, over the
        \* encodings spaces
        Front(i, spaces) ==
            LET w == Width({ e \in spaces : i + Len(e) - 1 <= Len(s)
                                              /\ SubSeq(s, i, i + Len(e) - 1) = e })
            IN  IF w = 0 THEN i ELSE Front(i + w, spaces)
        RECURSIVE Back(_, _, _)
        \* the last position down to first, from j, that ends no white space
        Back(j, first, spaces) ==
            LET w == Width({ e \in spaces : j - Len(e) + 1 >= first
                                              /\ SubSeq(s, j - Len(e) + 1, j) = e })
            IN  IF w = 0 THEN j ELSE Back(j - w, first, spaces)
        Cut(first, spaces) == SubSeq(s, first, Back(Len(s), first, spaces))
    IN  Cut(Front(1, SpaceEncodings), SpaceEncodings)

RECURSIVE Replace(_, _, _, _)
\* strings.Replace(s, old, new, n) for a non-empty old: the first n
\* non-overlapping occurrences from the left, all of them when n < 0
Replace(s, old, new, n) ==
    IF n = 0 THEN s
    ELSE LET i == Index(s, old) IN
         IF i = 0 THEN s
         ELSE SubSeq(s, 1, i - 1) \o new
              \o Replace(SubSeq(s, i + Len(old), Len(s)), old, new, n - 1)

RECURSIVE Repeat(_, _)
\* strings.Repeat
Repeat(c, n) == IF n <= 0 THEN "" ELSE c \o Repeat(c, n - 1)

----------------------------------------------------------------------------
(* utils.go                                                                *)

DefaultRegion == "ap-northeast-1"
UsEast1 == "us-east-1"

\* getQueryRegion
getQueryRegion(q) ==
    IF \/ Contains(q, "amazon_security_lake_glue_db_us_east_1")
       \/ Contains(q, "amazon_security_lake_table_us_east_1")
       \/ Contains(q, "waf_2_0_us_east_1")
    THEN UsEast1
    ELSE IF Contains(q, "frontend") THEN UsEast1
    ELSE IF Contains(q, "global/webacl") THEN UsEast1
    ELSE DefaultRegion

----------------------------------------------------------------------------
(* preprocessSqlQuery                                                      *)

TableApNe == "amazon_security_lake_table_ap_northeast_1_waf_2_0"
TableUsEast == "amazon_security_lake_table_us_east_1_waf_2_0"

\* the table qualification block of preprocessSqlQuery
QualifyTables(q) ==
    LET DbPrefix == "amazon_security_lake_glue_db"
        DbApNe   == "amazon_security_lake_glue_db_ap_northeast_1"
        DbUsEast == "amazon_security_lake_glue_db_us_east_1"
    IN  IF Contains(q, DbPrefix) THEN q
        ELSE LET q1 == IF Contains(q, TableApNe) /\ ~Contains(q, DbApNe)
                       THEN Replace(q, TableApNe, DbApNe \o "." \o TableApNe, -1)
                       ELSE q
             IN  IF Contains(q1, TableUsEast) /\ ~Contains(q1, DbUsEast)
                 THEN Replace(q1, TableUsEast, DbUsEast \o "." \o TableUsEast, -1)
                 ELSE q1

(* ---- the two BETWEEN patterns ---- *)

\* the least position from i to Len(s) + 1 that holds none of the characters
\* of class, Len(s) + 1 standing for the end of the text
SkipWhile(s, i, class) ==
    CHOOSE j \in i..(Len(s) + 1) :
        /\ j = Len(s) + 1 \/ CharAt(s, j) \notin class
        /\ \A k \in i..(j - 1) : CharAt(s, k) \in class

\* \s* from position i: the class \s of the regexp package holds \t, \n,
\* \f, \r and the space
SkipSpace(s, i) == SkipWhile(s, i, {" ", "\t", "\n", "\r", "\f"})

\* the text lit stands at position i of s
HasAt(s, i, lit) ==
    i + Len(lit) - 1 <= Len(s) /\ SubSeq(s, i, i + Len(lit) - 1) = lit

\* '([^']+)' at position i: the text between the quotes and the position
\* after the closing quote
QuotedAt(s, i) ==
    LET closing == {j \in (i + 1)..Len(s) : CharAt(s, j) = "'"}
        close   == CHOOSE j \in closing : \A k \in closing : j <= k
    IN  IF HasAt(s, i, "'") /\ closing # {} /\ close > i + 1
        THEN [ok |-> TRUE, end |-> close + 1, v |-> SubSeq(s, i + 1, close - 1)]
        ELSE [ok |-> FALSE, end |-> 0, v |-> ""]

NoMatch == [ok |-> FALSE, end |-> 0, d1 |-> "", d2 |-> ""]

\* simpleRegex at position i: BETWEEN\s+'([^']+)'\s+AND\s+'([^']+)'
BetweenAt(s, i) ==
    LET b  == SkipSpace(s, i + 7)
        q1 == QuotedAt(s, b)
        c  == SkipSpace(s, q1.end)
        e  == SkipSpace(s, c + 3)
        q2 == QuotedAt(s, e)
    IN  IF /\ HasAt(s, i, "BETWEEN") /\ b > i + 7 /\ q1.ok
           /\ c > q1.end /\ HasAt(s, c, "AND") /\ e > c + 3 /\ q2.ok
        THEN [ok |-> TRUE, end |-> q2.end, d1 |-> q1.v, d2 |-> q2.v]
        ELSE NoMatch

\* betweenRegex at position i: time_dt\s+ and then simpleRegex
TimeDtBetweenAt(s, i) ==
    LET b == SkipSpace(s, i + 7)
    IN  IF HasAt(s, i, "time_dt") /\ b > i + 7 THEN BetweenAt(s, b) ELSE NoMatch

(* ---- time.Parse and Time.Format with the layout 2006-01-02 15:04:05 ---- *)

Digits == {"0", "1", "2", "3", "4", "5", "6", "7", "8", "9"}

IsDigitAt(v, i) == i >= 1 /\ i <= Len(v) /\ CharAt(v, i) \in Digits

\* daysIn
DaysIn(mo, y) ==
    LET isLeap == y % 4 = 0 /\ (y % 100 # 0 \/ y % 400 = 0)
    IN  IF mo = 2 THEN (IF isLeap THEN 29 ELSE 28)
        ELSE IF mo \in {4, 6, 9, 11} THEN 30
        ELSE 31

NoTime == [ok |-> FALSE, y |-> 0, mo |-> 0, d |-> 0, h |-> 0, mi |-> 0, s |-> 0]

\* time.Parse("2006-01-02 15:04:05", v): a four-digit year, two-digit month
\* and day, a run of spaces, an hour of one or two digits, two-digit minute
\* and second, and a fraction of a second that is accepted and dropped; each
\* field in its range, the day within its month, and no text after it
ParseTime(v) ==
    LET digit(i) == Index("0123456789", CharAt(v, i)) - 1
        two(i)   == IsDigitAt(v, i) /\ IsDigitAt(v, i + 1)
        num(i)   == 10 * digit(i) + digit(i + 1)
        h    == SkipWhile(v, 11, {" "})
        n    == IF IsDigitAt(v, h + 1) THEN 2 ELSE 1
        m    == h + n
        rest == m + 6
        end  == IF /\ rest + 1 <= Len(v)
                   /\ CharAt(v, rest) \in {".", ","}
                   /\ IsDigitAt(v, rest + 1)
                THEN SkipWhile(v, rest + 1, Digits)
                ELSE rest
    IN  IF /\ two(1) /\ two(3)
           /\ HasAt(v, 5, "-") /\ two(6)
           /\ HasAt(v, 8, "-") /\ two(9)
           /\ HasAt(v, 11, " ")
           /\ IsDigitAt(v, h)
        THEN LET y    == 100 * num(1) + num(3)
                 mo   == num(6)
                 d    == num(9)
                 hour == IF n = 2 THEN num(h) ELSE digit(h)
             IN  IF /\ mo >= 1 /\ mo <= 12
                    /\ hour < 24
                    /\ HasAt(v, m, ":") /\ two(m + 1) /\ num(m + 1) < 60
                    /\ HasAt(v, m + 3, ":") /\ two(m + 4) /\ num(m + 4) < 60
                    /\ end = Len(v) + 1
                    /\ d >= 1 /\ d <= DaysIn(mo, y)
                 THEN [ok |-> TRUE, y |-> y, mo |-> mo, d |-> d, h |-> hour,
                       mi |-> num(m + 1), s |-> num(m + 4)]
                 ELSE NoTime
        ELSE NoTime

\* t.Add(-9 * time.Hour)
MinusNineHours(t) ==
    IF t.h >= 9 THEN [t EXCEPT !.h = t.h - 9]
    ELSE IF t.d > 1 THEN [t EXCEPT !.h = t.h + 15, !.d = t.d - 1]
    ELSE IF t.mo > 1
         THEN [t EXCEPT !.h = t.h + 15, !.mo = t.mo - 1, !.d = DaysIn(t.mo - 1, t.y)]
    ELSE [t EXCEPT !.h = t.h + 15, !.y = t.y - 1, !.mo = 12, !.d = 31]

\* t.Format("2006-01-02 15:04:05"); appendInt writes a number in decimal,
\* padded with zeros to its width, after the sign of a negative one
FormatTime(t) ==
    LET abs(n) == IF n < 0 THEN 0 - n ELSE n
        appendInt(n, width) ==
            (IF n < 0 THEN "-" ELSE "")
            \o Repeat("0", width - Len(ToString(abs(n)))) \o ToString(abs(n))
    IN  appendInt(t.y, 4) \o "-" \o appendInt(t.mo, 2) \o "-" \o appendInt(t.d, 2)
        \o " " \o appendInt(t.h, 2) \o ":" \o appendInt(t.mi, 2)
        \o ":" \o appendInt(t.s, 2)

\* a bound of a time_dt clause: read as JST and written as UTC when it names
\* no zone and parses, else left as it is
ToUtc(date) ==
    IF ~Contains(date, "+") /\ ~Contains(date, "Z") /\ ParseTime(date).ok
    THEN FormatTime(MinusNineHours(ParseTime(date)))
    ELSE date

\* the block that casts the bounds of the time_dt clauses:
\* re.ReplaceAllStringFunc over betweenRegex, where each match, leftmost
\* first, becomes a clause with TIMESTAMP bounds
CastTimeDt(q) ==
    LET RECURSIVE From(_)
        From(i) ==
            LET starts == {j \in i..Len(q) : TimeDtBetweenAt(q, j).ok}
                j      == CHOOSE a \in starts : \A b \in starts : a <= b
                match  == TimeDtBetweenAt(q, j)
            IN  IF starts = {} THEN SubSeq(q, i, Len(q))
                ELSE SubSeq(q, i, j - 1)
                     \o "time_dt BETWEEN TIMESTAMP '" \o ToUtc(match.d1)
                     \o "' AND TIMESTAMP '" \o ToUtc(match.d2) \o "'"
                     \o From(match.end)
    IN  From(1)

\* isNumeric: strconv.Atoi accepts a sign and then digits whose value is an
\* int of 64 bits, from -9223372036854775808 to 9223372036854775807. The
\* value is compared with the bound digit by digit, leading zeros set aside.
isNumeric(s) ==
    LET first    == IF Len(s) > 0 /\ CharAt(s, 1) \in {"+", "-"} THEN 2 ELSE 1
        digits   == SubSeq(s, first, Len(s))
        n        == SubSeq(digits, SkipWhile(digits, 1, {"0"}), Len(digits))
        bound    == IF CharAt(s, 1) = "-" THEN "9223372036854775808"
                    ELSE "9223372036854775807"
        Value(c) == CHOOSE d \in 0..9 : ToString(d) = c
        differ   == { i \in 1..Len(bound) : CharAt(n, i) # CharAt(bound, i) }
        at       == CHOOSE i \in differ : \A j \in differ : i <= j
        InRange  == \/ Len(n) < Len(bound)
                    \/ /\ Len(n) = Len(bound)
                       /\ differ = {} \/ Value(CharAt(n, at)) < Value(CharAt(bound, at))
    IN  /\ first <= Len(s)
        /\ SkipWhile(s, first, Digits) = Len(s) + 1
        /\ InRange

RECURSIVE FindAllBetween(_, _)
\* re.FindAllStringSubmatch over simpleRegex, from position i on
FindAllBetween(s, i) ==
    LET starts == {j \in i..Len(s) : BetweenAt(s, j).ok}
        j      == CHOOSE a \in starts : \A b \in starts : a <= b
    IN  IF starts = {} THEN <<>>
        ELSE <<BetweenAt(s, j)>> \o FindAllBetween(s, BetweenAt(s, j).end)

\* the body of the loop over the matches: the first occurrence of each
\* year-only bound is replaced
ExpandYear(q, match) ==
    LET q1 == IF Len(match.d1) = 4 /\ isNumeric(match.d1)
              THEN Replace(q, "'" \o match.d1 \o "'",
                           "TIMESTAMP '" \o match.d1 \o "-01-01 00:00:00'", 1)
              ELSE q
    IN  IF Len(match.d2) = 4 /\ isNumeric(match.d2)
        THEN Replace(q1, "'" \o match.d2 \o "'",
                     "TIMESTAMP '" \o match.d2 \o "-12-31 23:59:59'", 1)
        ELSE q1

\* the block that expands year-only bounds: the loop runs over the matches
\* found in the text as it was before the loop
ExpandYears(q) ==
    LET matches == FindAllBetween(q, 1)
        RECURSIVE From(_, _)
        From(text, k) ==
            IF k > Len(matches) THEN text
            ELSE From(ExpandYear(text, matches[k]), k + 1)
    IN  From(q, 1)

\* preprocessSqlQuery
preprocessSqlQuery(q) == ExpandYears(CastTimeDt(QualifyTables(TrimSpace(q))))

----------------------------------------------------------------------------
(* runAthenaQuery                                                          *)

\* the deny-list check without the upper-casing
DenyListedCaseSensitive(q) ==
    \/ Contains(q, "DROP")
    \/ Contains(q, "DELETE")
    \/ Contains(q, "INSERT")
    \/ Contains(q, "UPDATE")

\* the deny-list check at the head of runAthenaQuery
DenyListed(q) ==
    \/ Contains(ToUpper(q), "DROP")
    \/ Contains(ToUpper(q), "DELETE")
    \/ Contains(ToUpper(q), "INSERT")
    \/ Contains(ToUpper(q), "UPDATE")

\* MaxResults of the GetQueryResults call
MaxResultRows == 20

\* queryTimeout, in seconds
QueryTimeoutSeconds == 45

Nil == <<>>
NotReturned == [returned |-> FALSE]
Returned(id, rows, msg, r) ==
    [returned |-> TRUE, qid |-> id, rows |-> rows, errMsg |-> msg, region |-> r]

TimedOutMsg == "Query timed out (45 seconds elapsed). Execution aborted."
DeniedMsg == "Invalid SQL command detected"

TerminalStates == {"SUCCEEDED", "FAILED", "CANCELLED"}

(* The backend, as the code sees it *)
\* attempts is only logged (l.270, l.273). The goroutine polls as long as
\* its select takes ticks; the model counts attempts up to MaxAttempts, calls
\* records the first MaxAttempts status fetches of an invocation, and
\* ctxAtFetch and statusLog record the first MaxAttempts - 1 status fetches
\* and the latest one.
MaxAttempts == 2
BackendErrors == {"ThrottlingException"}
ExecutionIds == {"q-1"}
AthenaStates == {"QUEUED", "RUNNING", "SUCCEEDED", "FAILED", "CANCELLED"}
\* Status.StateChangeReason, a *string
StateReasons == { [nil |-> TRUE, v |-> ""], [nil |-> FALSE, v |-> "SYNTAX_ERROR"] }
ResultRowSets ==
    { <<>>,
      << <<[nil |-> FALSE, v |-> "status"], [nil |-> FALSE, v |-> "count"]>> >>,
      << <<[nil |-> FALSE, v |-> "status"], [nil |-> FALSE, v |-> "count"]>>,
         <<[nil |-> FALSE, v |-> "BLOCK"], [nil |-> FALSE, v |-> "5"]>> >> }

Call(op, arg, max) == [op |-> op, arg |-> arg, max |-> max]

\* close(doneCh): a caller parked in its select is woken on this case
CloseDone ==
    /\ doneCh' = TRUE
    /\ mpc' = IF mpc = "blocked" THEN "gotDone" ELSE mpc

\* queryContext becomes done with error e: each goroutine parked in a
\* select is woken on its queryContext.Done() case
FireCtx(e) ==
    /\ ctxErr' = e
    /\ mpc' = IF mpc = "blocked" THEN "gotCtx" ELSE mpc
    /\ ppc' = IF ppc = "blocked" THEN "ctx" ELSE ppc

\* return from runAthenaQuery after submission: the deferred cancel() runs
ReturnWith(r) ==
    /\ ret' = r
    /\ mpc' = "returned"
    /\ ctxErr' = IF ctxErr = "" THEN "canceled" ELSE ctxErr
    /\ ppc' = IF ppc = "blocked" /\ ctxErr = "" THEN "ctx" ELSE ppc

(* ---- the calling goroutine ---- *)

\* the deny-list rejects the query
Rejected ==
    /\ mpc = "entry"
    /\ DenyListed(query)
    /\ ret' = Returned("", Nil, DeniedMsg, "")
    /\ mpc' = "returned"
    /\ UNCHANGED <<query, parentDone, ppc, ctxErr, doneCh, tickC, errorMsg, state,
                   attempts, region, qid, calls, statusLog, ctxAtFetch, nextToken>>
    /\ UNCHANGED hvars
    /\ UNCHANGED rvars
    /\ UNCHANGED fvars

StartCall(q) == Call("StartQueryExecution", q, 0)

\* StartQueryExecution fails and the region is dropped from the answer
SubmitFailsWithoutRegion(e) ==
    /\ mpc = "entry"
    /\ ~DenyListed(query)
    /\ LET q == preprocessSqlQuery(query)
           r == getQueryRegion(q)
       IN  /\ region' = r
           /\ calls' = Append(calls, StartCall(q))
           /\ ret' = Returned("", Nil, "Athena start error: " \o e, "")
    /\ mpc' = "returned"
    /\ UNCHANGED <<query, parentDone, ppc, ctxErr, doneCh, tickC, errorMsg, state,
                   attempts, qid, statusLog, ctxAtFetch, nextToken>>
    /\ UNCHANGED hvars
    /\ UNCHANGED rvars
    /\ UNCHANGED fvars

\* StartQueryExecution fails
SubmitFails(e) ==
    /\ mpc = "entry"
    /\ ~DenyListed(query)
    /\ LET q == preprocessSqlQuery(query)
           r == getQueryRegion(q)
       IN  /\ region' = r
           /\ calls' = Append(calls, StartCall(q))
           /\ ret' = Returned("", Nil, "Athena start error: " \o e, r)
    /\ mpc' = "returned"
    /\ UNCHANGED <<query, parentDone, ppc, ctxErr, doneCh, tickC, errorMsg, state,
                   attempts, qid, statusLog, ctxAtFetch, nextToken>>
    /\ UNCHANGED hvars
    /\ UNCHANGED rvars
    /\ UNCHANGED fvars

\* StartQueryExecution succeeds; the context, the channel and the polling
\* goroutine are created
Submitted(id) ==
    /\ mpc = "entry"
    /\ ~DenyListed(query)
    /\ LET q == preprocessSqlQuery(query)
       IN  /\ region' = getQueryRegion(q)
           /\ calls' = Append(calls, StartCall(q))
    /\ qid' = id
    /\ ctxErr' = IF parentDone THEN "canceled" ELSE ""
    /\ mpc' = "select"
    /\ ppc' = "select"
    /\ UNCHANGED <<query, parentDone, doneCh, tickC, errorMsg, state, attempts,
                   statusLog, ctxAtFetch, nextToken, ret>>
    /\ UNCHANGED hvars
    /\ UNCHANGED rvars
    /\ UNCHANGED fvars

\* the caller reaches its select: a ready case is taken (any one of them
\* when both are ready), otherwise the goroutine parks
CallerSelect ==
    /\ mpc = "select"
    /\ \/ /\ doneCh
          /\ mpc' = "gotDone"
       \/ /\ ctxErr # ""
          /\ mpc' = "gotCtx"
       \/ /\ ~doneCh /\ ctxErr = ""
          /\ mpc' = "blocked"
    /\ UNCHANGED <<query, parentDone, ppc, ctxErr, doneCh, tickC, errorMsg, state,
                   attempts, region, qid, calls, statusLog, ctxAtFetch, nextToken, ret>>
    /\ UNCHANGED hvars
    /\ UNCHANGED rvars
    /\ UNCHANGED fvars

\* case <-doneCh, not a success, with the execution cancelled on the way out
CallerDoneFailedCancelling ==
    /\ mpc = "gotDone"
    /\ errorMsg # "" \/ state # "SUCCEEDED"
    /\ LET msg == IF errorMsg = ""
                  THEN "Athena query did not complete successfully. Final state: "
                       \o state
                  ELSE errorMsg
       IN  /\ errorMsg' = msg
           /\ ReturnWith(Returned(qid, Nil, msg, region))
    /\ calls' = Append(calls, Call("StopQueryExecution", qid, 0))
    /\ UNCHANGED <<query, parentDone, doneCh, tickC, state, attempts, region, qid,
                   statusLog, ctxAtFetch, nextToken>>
    /\ UNCHANGED hvars
    /\ UNCHANGED rvars
    /\ UNCHANGED fvars

\* case <-doneCh, not a success
CallerDoneFailed ==
    /\ mpc = "gotDone"
    /\ errorMsg # "" \/ state # "SUCCEEDED"
    /\ LET msg == IF errorMsg = ""
                  THEN "Athena query did not complete successfully. Final state: "
                       \o state
                  ELSE errorMsg
       IN  /\ errorMsg' = msg
           /\ ReturnWith(Returned(qid, Nil, msg, region))
    /\ UNCHANGED <<query, parentDone, doneCh, tickC, state, attempts, region, qid,
                   calls, statusLog, ctxAtFetch, nextToken>>
    /\ UNCHANGED hvars
    /\ UNCHANGED rvars
    /\ UNCHANGED fvars

ResultsCall == Call("GetQueryResults", qid, MaxResultRows)

\* case <-doneCh, success: the GetQueryResults call is issued and the caller
\* waits for its answer
CallerFetchResults ==
    /\ mpc = "gotDone"
    /\ ~(errorMsg # "" \/ state # "SUCCEEDED")
    /\ calls' = Append(calls, ResultsCall)
    /\ mpc' = "results"
    /\ UNCHANGED <<query, parentDone, ppc, ctxErr, doneCh, tickC, errorMsg, state,
                   attempts, region, qid, statusLog, ctxAtFetch, nextToken, ret>>
    /\ UNCHANGED hvars
    /\ UNCHANGED rvars
    /\ UNCHANGED fvars

\* GetQueryResults fails
CallerResultsFail(e) ==
    /\ mpc = "results"
    /\ errorMsg' = "Failed to get query results: " \o e
    /\ ReturnWith(Returned(qid, Nil, "Failed to get query results: " \o e, region))
    /\ UNCHANGED <<query, parentDone, doneCh, tickC, state, attempts, region, qid,
                   calls, statusLog, ctxAtFetch, nextToken>>
    /\ UNCHANGED hvars
    /\ UNCHANGED rvars
    /\ UNCHANGED fvars

\* GetQueryResults answers one page and a NextToken is followed by another
\* fetch
CallerResultsFollowingToken(rows, more) ==
    /\ mpc = "results"
    /\ nextToken' = IF more THEN "present" ELSE "absent"
    /\ IF more
       THEN /\ mpc' = "gotDone"
            /\ UNCHANGED <<ret, ctxErr, ppc>>
       ELSE ReturnWith(Returned(qid, rows, "", region))
    /\ UNCHANGED <<query, parentDone, doneCh, tickC, errorMsg, state, attempts,
                   region, qid, calls, statusLog, ctxAtFetch>>
    /\ UNCHANGED hvars
    /\ UNCHANGED rvars
    /\ UNCHANGED fvars

\* GetQueryResults answers one page; the page may carry a NextToken, which
\* is logged
CallerResults(rows, more) ==
    /\ mpc = "results"
    /\ nextToken' = IF more THEN "present" ELSE "absent"
    /\ ReturnWith(Returned(qid, rows, "", region))
    /\ UNCHANGED <<query, parentDone, doneCh, tickC, errorMsg, state, attempts,
                   region, qid, calls, statusLog, ctxAtFetch>>
    /\ UNCHANGED hvars
    /\ UNCHANGED rvars
    /\ UNCHANGED fvars

\* case <-queryContext.Done(): the StopQueryExecution call is issued and the
\* caller waits for its answer, while the polling goroutine runs on
CallerStopQuery ==
    /\ mpc = "gotCtx"
    /\ calls' = Append(calls, Call("StopQueryExecution", qid, 0))
    /\ mpc' = "stopping"
    /\ UNCHANGED <<query, parentDone, ppc, ctxErr, doneCh, tickC, errorMsg, state,
                   attempts, region, qid, statusLog, ctxAtFetch, nextToken, ret>>
    /\ UNCHANGED hvars
    /\ UNCHANGED rvars
    /\ UNCHANGED fvars

\* StopQueryExecution answers; its error is only logged, and the timed-out
\* outcome is returned
CallerTimeout ==
    /\ mpc = "stopping"
    /\ ReturnWith(Returned(qid, Nil, TimedOutMsg, region))
    /\ UNCHANGED <<query, parentDone, doneCh, tickC, errorMsg, state, attempts,
                   region, qid, calls, statusLog, ctxAtFetch, nextToken>>
    /\ UNCHANGED hvars
    /\ UNCHANGED rvars
    /\ UNCHANGED fvars

(* ---- the polling goroutine ---- *)

\* the goroutine reaches its select: a ready case is taken (any one of
\* them when both are ready), otherwise the goroutine parks
PollSelect ==
    /\ ppc = "select"
    /\ \/ /\ ctxErr # ""
          /\ ppc' = "ctx"
          /\ tickC' = tickC
       \/ /\ tickC = 1
          /\ ppc' = "tick"
          /\ tickC' = 0
       \/ /\ ctxErr = "" /\ tickC = 0
          /\ ppc' = "blocked"
          /\ tickC' = tickC
    /\ UNCHANGED <<query, parentDone, mpc, ctxErr, doneCh, errorMsg, state,
                   attempts, region, qid, calls, statusLog, ctxAtFetch, nextToken, ret>>
    /\ UNCHANGED hvars
    /\ UNCHANGED rvars
    /\ UNCHANGED fvars

\* case <-queryContext.Done(): return, with doneCh left open
PollCtxDoneWithoutClose ==
    /\ ppc = "ctx"
    /\ ppc' = "exited"
    /\ UNCHANGED <<query, parentDone, mpc, ctxErr, doneCh, tickC, errorMsg, state,
                   attempts, region, qid, calls, statusLog, ctxAtFetch, nextToken, ret>>
    /\ UNCHANGED hvars
    /\ UNCHANGED rvars
    /\ UNCHANGED fvars

\* case <-queryContext.Done(): return, and the deferred close(doneCh)
PollCtxDone ==
    /\ ppc = "ctx"
    /\ ppc' = "exited"
    /\ CloseDone
    /\ UNCHANGED <<query, parentDone, ctxErr, tickC, errorMsg, state, attempts,
                   region, qid, calls, statusLog, ctxAtFetch, nextToken, ret>>
    /\ UNCHANGED hvars
    /\ UNCHANGED rvars
    /\ UNCHANGED fvars

\* statusLog with the answer of the latest status fetch
Recorded(entry) ==
    IF Len(statusLog) < Len(ctxAtFetch)
    THEN Append(statusLog, entry)
    ELSE [statusLog EXCEPT ![Len(statusLog)] = entry]

\* case <-ticker.C: attempts++ and the GetQueryExecution call is issued
PollFetch ==
    /\ ppc = "tick"
    /\ ppc' = "fetch"
    /\ IF attempts < MaxAttempts
       THEN /\ attempts' = attempts + 1
            /\ calls' = Append(calls, Call("GetQueryExecution", qid, 0))
            /\ ctxAtFetch' = Append(ctxAtFetch, ctxErr)
       ELSE /\ ctxAtFetch' = [ctxAtFetch EXCEPT ![Len(ctxAtFetch)] = ctxErr]
            /\ UNCHANGED <<attempts, calls>>
    /\ UNCHANGED <<query, parentDone, mpc, ctxErr, doneCh, tickC, errorMsg, state,
                   region, qid, statusLog, nextToken, ret>>
    /\ UNCHANGED hvars
    /\ UNCHANGED rvars
    /\ UNCHANGED fvars

\* GetQueryExecution returns an error and the goroutine polls again
PollFetchFailsAndRetries(e) ==
    /\ ppc = "fetch"
    /\ statusLog' = Recorded([err |-> e, state |-> ""])
    /\ ppc' = "select"
    /\ UNCHANGED <<query, parentDone, mpc, ctxErr, doneCh, tickC, errorMsg, state,
                   attempts, region, qid, calls, ctxAtFetch, nextToken, ret>>
    /\ UNCHANGED hvars
    /\ UNCHANGED rvars
    /\ UNCHANGED fvars

\* GetQueryExecution returns an error: errorMsg is set and the goroutine
\* returns
PollFetchFails(e) ==
    /\ ppc = "fetch"
    /\ statusLog' = Recorded([err |-> e, state |-> ""])
    /\ errorMsg' = "Failed to get query status: " \o e
    /\ ppc' = "exited"
    /\ CloseDone
    /\ UNCHANGED <<query, parentDone, ctxErr, tickC, state, attempts, region, qid,
                   calls, ctxAtFetch, nextToken, ret>>
    /\ UNCHANGED hvars
    /\ UNCHANGED rvars
    /\ UNCHANGED fvars

\* errorMsg after a status with state st and StateChangeReason reason
StatusErrorMsg(st, reason) ==
    IF st = "FAILED"
    THEN "Athena query failed: " \o (IF reason.nil THEN "Unknown error" ELSE reason.v)
    ELSE IF st = "CANCELLED" THEN "Athena query was cancelled"
    ELSE errorMsg

\* the polling goroutine keeps polling a cancelled execution
StopsPollingExceptCancelled(st) == st \in {"SUCCEEDED", "FAILED"}

\* the states on which the polling goroutine returns
StopsPolling(st) == st \in {"SUCCEEDED", "FAILED", "CANCELLED"}

\* GetQueryExecution returns a status: state is recorded; on SUCCEEDED,
\* FAILED and CANCELLED the goroutine returns, otherwise it loops
PollFetched(st, reason) ==
    /\ ppc = "fetch"
    /\ statusLog' = Recorded([err |-> "", state |-> st])
    /\ state' = st
    /\ errorMsg' = StatusErrorMsg(st, reason)
    /\ IF StopsPolling(st)
       THEN /\ ppc' = "exited"
            /\ CloseDone
       ELSE /\ ppc' = "select"
            /\ UNCHANGED <<doneCh, mpc>>
    /\ UNCHANGED <<query, parentDone, ctxErr, tickC, attempts, region, qid, calls,
                   ctxAtFetch, nextToken, ret>>
    /\ UNCHANGED hvars
    /\ UNCHANGED rvars
    /\ UNCHANGED fvars

(* ---- timers and the caller's context ---- *)

TickerRunning == ppc \in {"select", "blocked", "tick", "fetch", "ctx"}

\* the ticker fires, every 2 seconds until the goroutine returns (l.246,
\* l.247): a goroutine parked in the select takes the tick, else the tick is
\* buffered when the channel is empty, else it is dropped
Tick ==
    /\ TickerRunning
    /\ \/ /\ ppc = "blocked"
          /\ ppc' = "tick"
          /\ tickC' = tickC
       \/ /\ ppc # "blocked"
          /\ tickC = 0
          /\ tickC' = 1
          /\ ppc' = ppc
    /\ UNCHANGED <<query, parentDone, mpc, ctxErr, doneCh, errorMsg, state,
                   attempts, region, qid, calls, statusLog, ctxAtFetch, nextToken, ret>>
    /\ UNCHANGED hvars
    /\ UNCHANGED rvars
    /\ UNCHANGED fvars

ContextLive ==
    mpc \in {"select", "blocked", "gotDone", "gotCtx", "results", "stopping"} /\ ctxErr = ""

\* the 45-second timer of queryContext fires
DeadlineFires ==
    /\ ContextLive
    /\ FireCtx("deadline")
    /\ UNCHANGED <<query, parentDone, doneCh, tickC, errorMsg, state, attempts,
                   region, qid, calls, statusLog, ctxAtFetch, nextToken, ret>>
    /\ UNCHANGED hvars
    /\ UNCHANGED rvars
    /\ UNCHANGED fvars

\* the ctx passed to runAthenaQuery is cancelled
ParentCancelled ==
    /\ ~parentDone
    /\ mpc # "returned"
    /\ parentDone' = TRUE
    /\ IF ContextLive
       THEN FireCtx("canceled")
       ELSE UNCHANGED <<ctxErr, mpc, ppc>>
    /\ UNCHANGED <<query, doneCh, tickC, errorMsg, state, attempts, region, qid,
                   calls, statusLog, ctxAtFetch, nextToken, ret>>
    /\ UNCHANGED hvars
    /\ UNCHANGED rvars
    /\ UNCHANGED fvars

----------------------------------------------------------------------------
(* formatAthenaResults                                                     *)

\* A cell is an athena.Datum: [nil |-> TRUE] when VarCharValue is nil, else
\* the string it points to in v.

\* The grave accent (U+0060) cannot be written in a TLA+ string: the model
\* writes ^ for it, a character no other text of the model uses.
Backtick == "^"
\* the three grave accents that open and close a code block
CodeFence == Backtick \o Backtick \o Backtick

\* the cap on the rows formatAthenaResults looks at
DisplayRowCap == 20

\* fmt.Sprintf("%-<w>s", v): the width counts code points, not bytes
PadRight(v, w) == v \o Repeat(" ", w - RuneCountInString(v))

\* column selection that keeps _col0 among the _col columns
SelectColumnsKeepingCol0(header) ==
    LET Labeled(i)   == ~header[i].nil /\ ~HasPrefix(header[i].v, "_col")
        Named(i)     == ~header[i].nil
        positions    == [i \in 1..Len(header) |-> i]
        labeled      == SelectSeq(positions, Labeled)
    IN  IF labeled = <<>> THEN SelectSeq(positions, Named) ELSE labeled

\* colIndices (1-based) as the passes over the header row build it: the
\* named columns whose name does not start with _col; when there are none
\* but some name starts with _col, those of them that are not _col0; and when
\* that leaves nothing, every named column
SelectColumns(header) ==
    LET Labeled(i)   == ~header[i].nil /\ ~HasPrefix(header[i].v, "_col")
        Anonymous(i) == ~header[i].nil /\ HasPrefix(header[i].v, "_col")
        NotCol0(i)   == Anonymous(i) /\ header[i].v # "_col0"
        Named(i)     == ~header[i].nil
        positions    == [i \in 1..Len(header) |-> i]
        labeled      == SelectSeq(positions, Labeled)
        second       == IF labeled = <<>> /\ SelectSeq(positions, Anonymous) # <<>>
                        THEN SelectSeq(positions, NotCol0)
                        ELSE labeled
    IN  IF second = <<>> THEN SelectSeq(positions, Named) ELSE second

\* colWidths: the header's length, raised by the values of the data rows
\* the loops visit, rows[1] .. rows[maxRows-1] in Go's numbering; a nil
\* value and a missing cell raise nothing
ColWidths(rows, cols, maxRows) ==
    LET Lens(col) == { Len(rows[i][col].v) :
                         i \in { k \in 2..maxRows :
                                   col <= Len(rows[k]) /\ ~rows[k][col].nil } }
                     \cup { Len(rows[1][col].v) }
    IN  [c \in 1..Len(cols) |->
            CHOOSE w \in Lens(cols[c]) : \A x \in Lens(cols[c]) : x <= w]

RECURSIVE JoinCells(_, _, _)
\* the texts of one line from column c on, each padded to its width + 2
JoinCells(texts, widths, c) ==
    IF c > Len(texts) THEN ""
    ELSE PadRight(texts[c], widths[c] + 2) \o JoinCells(texts, widths, c + 1)

HeaderLine(rows, cols, widths) ==
    JoinCells([c \in 1..Len(cols) |-> rows[1][cols[c]].v], widths, 1) \o "\n"

RECURSIVE SeparatorLine(_, _)
SeparatorLine(widths, c) ==
    IF c > Len(widths) THEN "\n"
    ELSE Repeat("-", widths[c] + 2) \o SeparatorLine(widths, c + 1)

\* one data row: NULL for a nil value, N/A for a cell the row does not have
DataLine(row, cols, widths) ==
    LET CellText(col) == IF col <= Len(row)
                         THEN (IF row[col].nil THEN "NULL" ELSE row[col].v)
                         ELSE "N/A"
    IN  JoinCells([c \in 1..Len(cols) |-> CellText(cols[c])], widths, 1) \o "\n"

RECURSIVE DataLines(_, _, _, _, _)
\* the lines of rows i..last
DataLines(rows, cols, widths, i, last) ==
    IF i > last THEN ""
    ELSE DataLine(rows[i], cols, widths) \o DataLines(rows, cols, widths, i + 1, last)

\* formatAthenaResults
formatAthenaResults(rows) ==
    IF Len(rows) = 0 THEN "No results found"
    ELSE LET cols == SelectColumns(rows[1]) IN
         IF cols = <<>> THEN "No displayable columns found"
         ELSE LET maxRows == IF Len(rows) > DisplayRowCap THEN DisplayRowCap ELSE Len(rows)
                  widths  == ColWidths(rows, cols, maxRows)
              IN  CodeFence \o "\n"
                  \o HeaderLine(rows, cols, widths)
                  \o SeparatorLine(widths, 1)
                  \o DataLines(rows, cols, widths, 2, maxRows)
                  \o (IF Len(rows) > DisplayRowCap
                      THEN "...(Results limited to 20 rows)\n" ELSE "")
                  \o CodeFence \o "\n"

\* the cap on the rows formatResultsForAnalysis looks at
AnalysisRowCap == 50

\* formatResultsForAnalysis: the columns, the widths and the lines are built
\* by the same statements as in formatAthenaResults; the text has no code
\* fence, and its note counts the rows from the cap on
formatResultsForAnalysis(rows) ==
    IF Len(rows) = 0 THEN "No data available"
    ELSE LET cols == SelectColumns(rows[1]) IN
         IF cols = <<>> THEN "No displayable columns found"
         ELSE LET maxRows == IF Len(rows) < AnalysisRowCap THEN Len(rows) ELSE AnalysisRowCap
                  widths  == ColWidths(rows, cols, maxRows)
              IN  HeaderLine(rows, cols, widths)
                  \o SeparatorLine(widths, 1)
                  \o DataLines(rows, cols, widths, 2, maxRows)
                  \o (IF Len(rows) > maxRows
                      THEN "\n... (" \o ToString(Len(rows) - maxRows)
                           \o " more rows not displayed)"
                      ELSE "")

----------------------------------------------------------------------------
(* The handler: requests, responses and the three dedup caches             *)

BotUser == "U08N7NYBPAL"
BotMention == "<@U08N7NYBPAL>"

\* the thresholds of the three caches; times are in seconds
EventCacheLimit == 100
QueryCacheLimit == 200
QueryCacheKeep == 150
QueryWindowSeconds == 5
QueryHorizonSeconds == 600
SlackWindowSeconds == 180
SlackCacheLimit == 50
SlackHorizonSeconds == 600
\* a shorter question is ignored
MinTextLen == 3
\* a longer question is shortened in the result message
DisplayTextLimit == 100
\* a longer message is searched for the result marker
SignatureMsgLen == 50

\* events.APIGatewayProxyResponse; NoResponse while the handler runs
NoResponse == [code |-> 0, body |-> "", ctype |-> ""]

\* response(code, body)
response(code, body) == [code |-> code, body |-> body, ctype |-> "application/json"]

(* A request is its retry header and what the two json.Unmarshal calls make
   of its body: shape "malformed" is a body the first call rejects, shape
   "mismatch" a JSON object the SlackEventWrapper cannot hold (a field of
   the wrong JSON type), shape "object" a body both calls accept.  challenge
   is payload["challenge"] when that is a string. *)
Request(retry, shape, challenge, type, etype, user, text, channel, id) ==
    [retryNum |-> retry, shape |-> shape, challenge |-> challenge, type |-> type,
     etype |-> etype, user |-> user, text |-> text, channel |-> channel,
     eventId |-> id]

NoChallenge == [present |-> FALSE, v |-> ""]
NoRequest == Request("", "malformed", NoChallenge, "", "", "", "", "", "")

\* the early returns without the test of the redelivery header
EarlyResponseWithoutRetryCheck(r) ==
    IF r.shape = "malformed" THEN response(400, "invalid request")
    ELSE IF r.challenge.present
         THEN [code |-> 200, body |-> r.challenge.v, ctype |-> "text/plain"]
    ELSE IF r.shape = "mismatch" THEN response(400, "invalid event format")
    ELSE IF r.type # "event_callback" THEN response(200, "ignored")
    ELSE IF r.etype # "message" /\ r.etype # "app_mention"
         THEN response(200, "ignored non-message event")
    ELSE IF r.user = BotUser THEN response(200, "ignored bot message")
    ELSE NoResponse

\* the early returns with status 400 for a request type other than
\* event_callback
EarlyResponseRejectingOtherTypes(r) ==
    IF r.retryNum # "" THEN response(200, "retry ignored")
    ELSE IF r.shape = "malformed" THEN response(400, "invalid request")
    ELSE IF r.challenge.present
         THEN [code |-> 200, body |-> r.challenge.v, ctype |-> "text/plain"]
    ELSE IF r.shape = "mismatch" THEN response(400, "invalid event format")
    ELSE IF r.type # "event_callback" THEN response(400, "ignored")
    ELSE IF r.etype # "message" /\ r.etype # "app_mention"
         THEN response(200, "ignored non-message event")
    ELSE IF r.user = BotUser THEN response(200, "ignored bot message")
    ELSE NoResponse

\* the returns of the handler before it looks at the caches, NoResponse when
\* the request passes all of them
EarlyResponse(r) ==
    IF r.retryNum # "" THEN response(200, "retry ignored")
    ELSE IF r.shape = "malformed" THEN response(400, "invalid request")
    ELSE IF r.challenge.present
         THEN [code |-> 200, body |-> r.challenge.v, ctype |-> "text/plain"]
    ELSE IF r.shape = "mismatch" THEN response(400, "invalid event format")
    ELSE IF r.type # "event_callback" THEN response(200, "ignored")
    ELSE IF r.etype # "message" /\ r.etype # "app_mention"
         THEN response(200, "ignored non-message event")
    ELSE IF r.user = BotUser THEN response(200, "ignored bot message")
    ELSE NoResponse

\* eventKey
EventKey(r) == r.eventId \o "_" \o r.text \o "_" \o r.channel

\* the presence test on the event id alone
DuplicateEventByIdOnly(events, r) == r.eventId # "" /\ r.eventId \in events

\* the request carries an event id and its key is in processedEvents
DuplicateEvent(events, r) == r.eventId # "" /\ EventKey(r) \in events

\* the insertion that empties an overfull cache and forgets the new key
EventsAfterForgettingKey(events, key) ==
    LET inserted == events \cup {key}
    IN  IF Cardinality(inserted) > EventCacheLimit THEN {} ELSE inserted

\* processedEvents after the key is marked and the size limit applied
EventsAfter(events, key) ==
    LET inserted == events \cup {key}
    IN  IF Cardinality(inserted) > EventCacheLimit THEN {key} ELSE inserted

\* the question: the event text trimmed, the bot mention removed, trimmed
QuestionText(r) == TrimSpace(Replace(TrimSpace(r.text), BotMention, "", -1))

\* queryKey
QueryKey(r) == r.channel \o ":" \o QuestionText(r)

\* the window test with <= for <
WithinQueryWindowInclusive(age) == age <= QueryWindowSeconds

\* timeSince < 5*time.Second
WithinQueryWindow(age) == age < QueryWindowSeconds

\* the key was recorded less than the window ago
DuplicateQuery(queries, key, t) ==
    key \in DOMAIN queries /\ WithinQueryWindow(t - queries[key])

\* m[key] = t on a Go map held as a function
MapPut(m, key, t) == [k \in DOMAIN m \cup {key} |-> IF k = key THEN t ELSE m[k]]

\* the entries of m the cleanup loop keeps at time t
WithoutOlderThan(m, t, horizon) ==
    [k \in {j \in DOMAIN m : ~(t - m[j] > horizon)} |-> m[k]]

\* the size limit without the clear that follows the cleanup
QueriesAfterCleanupOnly(queries, key, t) ==
    LET recorded == MapPut(queries, key, t)
    IN  IF Cardinality(DOMAIN recorded) > QueryCacheLimit
        THEN WithoutOlderThan(recorded, t, QueryHorizonSeconds)
        ELSE recorded

\* recentQueries after the key is recorded and the size limit applied
QueriesAfter(queries, key, t) ==
    LET recorded == MapPut(queries, key, t)
        cleaned  == WithoutOlderThan(recorded, t, QueryHorizonSeconds)
    IN  IF Cardinality(DOMAIN recorded) > QueryCacheLimit
        THEN (IF Cardinality(DOMAIN cleaned) > QueryCacheKeep
              THEN MapPut(<<>>, key, t)
              ELSE cleaned)
        ELSE recorded

----------------------------------------------------------------------------
(* postToSlack                                                             *)

ResultMarker == "*result:*"

\* contentSignature: for a long message that holds the marker, the text
\* between the first marker and the next marker or line break, which is
\* strings.Split(strings.Split(msg, marker)[1], "\n")[0]
contentSignature(m) ==
    LET BeforeFirst(s, sep) ==
            IF Contains(s, sep) THEN SubSeq(s, 1, Index(s, sep) - 1) ELSE s
        AfterFirst(s, sep) == SubSeq(s, Index(s, sep) + Len(sep), Len(s))
        SecondPart == BeforeFirst(AfterFirst(m, ResultMarker), ResultMarker)
    IN  IF Len(m) > SignatureMsgLen /\ Contains(m, ResultMarker)
        THEN "WAF result:" \o BeforeFirst(SecondPart, "\n")
        ELSE m

\* msgHash
msgHash(channel, m) == channel \o ":" \o contentSignature(m)

\* the window test with <= for <
WithinSlackWindowInclusive(age) == age <= SlackWindowSeconds

\* timeSince < 3*time.Minute
WithinSlackWindow(age) == age < SlackWindowSeconds

\* the message is suppressed: its hash was recorded less than the window ago
SlackSuppressed(sent, h, t) ==
    h \in DOMAIN sent /\ WithinSlackWindow(t - sent[h])

\* recentSlackMessages after the hash is recorded and the size limit applied
SlackAfter(sent, h, t) ==
    LET recorded == MapPut(sent, h, t)
    IN  IF Cardinality(DOMAIN recorded) > SlackCacheLimit
        THEN WithoutOlderThan(recorded, t, SlackHorizonSeconds)
        ELSE recorded

\* what the chat.postMessage request can come to: delivered, a transport
\* error, an API answer with ok = false
Deliveries == {"ok", "transport error", "api error"}

\* one call made to another component
Effect(op, arg, result) == [op |-> op, arg |-> arg, result |-> result]

\* the calls postToSlack(channel, m) adds to the log of the invocation: the
\* call itself with what it returned, then the HTTP request when one is made
PostEffects(sent, token, channel, m, t, d) ==
    LET DeliveryError ==
            IF d = "ok" THEN ""
            ELSE IF d = "transport error"
            THEN "Post https://slack.com/api/chat.postMessage: EOF"
            ELSE "Slack API error: channel_not_found"
    IN  IF SlackSuppressed(sent, msgHash(channel, m), t)
        THEN << Effect("postToSlack", m, "suppressed") >>
        ELSE IF token = ""
        THEN << Effect("postToSlack", m,
                       "Slack token is empty. Unable to send message to Slack.") >>
        ELSE << Effect("postToSlack", m, DeliveryError),
                Effect("chat.postMessage", m, d) >>

\* the hash recorded after the token check, so that a call without a token
\* records nothing
PostCacheRecordingAfterTokenCheck(sent, channel, m, t) ==
    IF SlackSuppressed(sent, msgHash(channel, m), t) \/ slackToken = ""
    THEN sent
    ELSE SlackAfter(sent, msgHash(channel, m), t)

\* the time of a suppressed message recorded as the time of its hash
PostCacheRefreshingOnDuplicate(sent, channel, m, t) ==
    IF SlackSuppressed(sent, msgHash(channel, m), t)
    THEN MapPut(sent, msgHash(channel, m), t)
    ELSE SlackAfter(sent, msgHash(channel, m), t)

\* recentSlackMessages after postToSlack(channel, m)
PostCache(sent, channel, m, t) ==
    IF SlackSuppressed(sent, msgHash(channel, m), t)
    THEN sent
    ELSE SlackAfter(sent, msgHash(channel, m), t)

----------------------------------------------------------------------------
(* The messages of the handler                                             *)

\* consoleUrl
consoleUrl(r, id) ==
    IF r = UsEast1
    THEN "https://us-east-1.console.aws.amazon.com/athena/home?region=us-east-1#/query-editor/history/"
         \o id
    ELSE "https://ap-northeast-1.console.aws.amazon.com/athena/home?region=ap-northeast-1#/query-editor/history/"
         \o id

\* the error message without the reason runAthenaQuery gave
detailedErrorWithoutReason(q, id, errMsg) ==
    "Query failed (region: " \o getQueryRegion(q) \o ")\n\n"
    \o "Executed SQL:\n" \o CodeFence \o "\n" \o q \o "\n" \o CodeFence \o "\n\n"
    \o "Athena Console: " \o consoleUrl(getQueryRegion(q), id)

\* detailedError
detailedError(q, id, errMsg) ==
    "Query failed (region: " \o getQueryRegion(q) \o "): " \o errMsg \o "\n\n"
    \o "Executed SQL:\n" \o CodeFence \o "\n" \o q \o "\n" \o CodeFence \o "\n\n"
    \o "Athena Console: " \o consoleUrl(getQueryRegion(q), id)

\* displayText
displayText(text) ==
    IF Len(text) > DisplayTextLimit THEN SubSeq(text, 1, 97) \o "..." ELSE text

NoDataAnalysis == "No data found. Please try different search criteria."

\* analyzeResults answers without calling Bedrock
AnalysisWithoutBedrock(rows) == Len(rows) <= 1

\* resultMessage
resultMessage(text, q, id, rows, analysis) ==
    "*WAF Log Search Result*\n\n"
    \o (IF showSqlInSlack
        THEN "*Input Prompt:*\n" \o CodeFence \o "\n" \o displayText(text) \o "\n"
             \o CodeFence \o "\n\n"
             \o "*Executed Query:*\n" \o CodeFence \o "\n" \o q \o "\n"
             \o CodeFence \o "\n\n"
        ELSE "")
    \o "*Result:* " \o ToString(Len(rows) - 1) \o " rows\n"
    \o (IF showQueryIdInSlack
        THEN "*Athena QueryID:* " \o Backtick \o id \o Backtick \o "\n"
             \o "*Console URL:* " \o consoleUrl(getQueryRegion(q), id) \o "\n\n"
        ELSE "")
    \o (IF Len(rows) > 1
        THEN "*Result Data:*\n" \o formatAthenaResults(rows)
        ELSE "*Result Data:* No data available")
    \o "\n*Analysis Result:*\n" \o analysis

----------------------------------------------------------------------------
(* What one runAthenaQuery call can return                                 *)

\* errorMsg when the polling goroutine ended the wait without a success
PollingFailures ==
    { "Failed to get query status: " \o e : e \in BackendErrors }
    \cup { "Athena query failed: " \o (IF reason.nil THEN "Unknown error" ELSE reason.v) :
             reason \in StateReasons }
    \cup { "Athena query was cancelled" }
    \cup { "Athena query did not complete successfully. Final state: " \o st :
             st \in {""} \cup (AthenaStates \ TerminalStates) }

\* the returns of runAthenaQuery(ctx, q), over the answers of the backend
\* and the interleavings of its two goroutines
runAthenaQueryReturns(q) ==
    IF DenyListed(q) THEN { Returned("", Nil, DeniedMsg, "") }
    ELSE LET r == getQueryRegion(preprocessSqlQuery(q)) IN
         { Returned("", Nil, "Athena start error: " \o e, r) : e \in BackendErrors }
         \cup { Returned(id, Nil, m, r) : id \in ExecutionIds, m \in PollingFailures }
         \cup { Returned(id, Nil, TimedOutMsg, r) : id \in ExecutionIds }
         \cup { Returned(id, Nil, "Failed to get query results: " \o e, r) :
                  id \in ExecutionIds, e \in BackendErrors }
         \cup { Returned(id, rows, "", r) : id \in ExecutionIds, rows \in ResultRowSets }

----------------------------------------------------------------------------
(* Handler invocations against the process-wide caches                     *)

\* handler invocations one behaviour starts
MaxInvocations == 2

\* the instants the clock takes, in seconds
Instants == {1000, 1004, 1005, 1184}
\* the clock at the first state: the earliest instant
StartInstant == CHOOSE t \in Instants : \A u \in Instants : t <= u

\* the question is one character of three bytes, U+6C34: it is as long as
\* len(text) < 3 asks. It arrives after the mention and before white space
\* outside ASCII (U+3000), and alone
Mentioned == BotMention \o " " \o EncodeRune(27700) \o EncodeRune(12288)
Plain == EncodeRune(27700)

\* an event a user sent
UserEvent(text, id) ==
    Request("", "object", NoChallenge, "event_callback", "app_mention", "U1", text,
            "C1", id)

Requests ==
    { UserEvent(Mentioned, "Ev1"),
      UserEvent(Plain, ""),
      UserEvent("hi", "Ev3"),
      \* one character of two bytes (U+00E9) after the mention
      UserEvent(BotMention \o " " \o EncodeRune(233), "Ev8"),
      Request("1", "object", NoChallenge, "event_callback", "app_mention", "U1",
              Mentioned, "C1", "Ev1"),
      Request("", "malformed", NoChallenge, "", "", "", "", "", ""),
      Request("2", "malformed", NoChallenge, "", "", "", "", "", ""),
      Request("", "object", [present |-> TRUE, v |-> "3eZbrw1a"], "url_verification",
              "", "", "", "", ""),
      Request("", "mismatch", NoChallenge, "event_callback", "app_mention", "U1",
              Plain, "C1", "Ev4"),
      Request("", "object", NoChallenge, "app_rate_limited", "", "", "", "", ""),
      Request("", "object", NoChallenge, "event_callback", "reaction_added", "U1",
              "", "C1", "Ev5"),
      Request("", "object", NoChallenge, "event_callback", "message", BotUser,
              Plain, "C1", "Ev6") }

\* what callBedrock answers to the SQL prompt, and to the analysis prompt
GeneratedSql ==
    { "SELECT status, count FROM amazon_security_lake_table_us_east_1_waf_2_0",
      "drop table x" }
AnalysisTexts == { "Most requests were blocked." }

\* a process just started, with and without a Slack token and with either
\* display toggle disabled by the environment, and processes
\* whose caches earlier invocations have filled with keys of other events,
\* other questions and other messages, the i-th recorded at the instant at[i]
CacheProfiles ==
    LET EarlierEvents(n) == { "E" \o ToString(i) \o "_q_C0" : i \in 1..n }
        Earlier(prefix, n, at) ==
            LET Number(k) == CHOOSE i \in 1..n : k = prefix \o ToString(i)
            IN  [k \in { prefix \o ToString(i) : i \in 1..n } |-> at[Number(k)]]
        \* every earlier entry is younger than the horizon at every instant
        AllYoung == [i \in 1..QueryCacheLimit |-> 600 + 2 * i]
        \* the first 51 entries are older than the horizon at every instant
        SomeOld  == [i \in 1..QueryCacheLimit |->
                        IF i <= 51 THEN 300 + i ELSE 600 + 2 * i]
    IN  { [events |-> {}, queries |-> <<>>, sent |-> <<>>, token |-> "xoxb-1",
           showSql |-> TRUE, showQueryId |-> TRUE],
          [events |-> {}, queries |-> <<>>, sent |-> <<>>, token |-> "",
           showSql |-> TRUE, showQueryId |-> TRUE],
          [events |-> {}, queries |-> <<>>, sent |-> <<>>, token |-> "xoxb-1",
           showSql |-> FALSE, showQueryId |-> TRUE],
          [events |-> {}, queries |-> <<>>, sent |-> <<>>, token |-> "xoxb-1",
           showSql |-> TRUE, showQueryId |-> FALSE],
          [events |-> EarlierEvents(EventCacheLimit),
           queries |-> Earlier("C0:q", QueryCacheLimit, AllYoung),
           sent |-> Earlier("C0:m", SlackCacheLimit, AllYoung), token |-> "xoxb-1",
           showSql |-> TRUE, showQueryId |-> TRUE],
          [events |-> EarlierEvents(EventCacheLimit - 1),
           queries |-> Earlier("C0:q", QueryCacheLimit, SomeOld),
           sent |-> Earlier("C0:m", SlackCacheLimit, SomeOld), token |-> "xoxb-1",
           showSql |-> TRUE, showQueryId |-> TRUE] }

\* the query variables while no runAthenaQuery invocation is modelled
QueryAtRest ==
    /\ query = ""
    /\ parentDone = FALSE
    /\ mpc = "returned"
    /\ ppc = "none"
    /\ ctxErr = ""
    /\ doneCh = FALSE
    /\ tickC = 0
    /\ errorMsg = ""
    /\ state = ""
    /\ attempts = 0
    /\ region = ""
    /\ qid = ""
    /\ calls = <<>>
    /\ statusLog = <<>>
    /\ ctxAtFetch = <<>>
    /\ nextToken = "none"
    /\ ret = NotReturned

\* the handler before its first invocation
HandlerAtRest ==
    /\ now = StartInstant
    /\ hpc = "idle"
    /\ invocations = 0
    /\ req = NoRequest
    /\ sql = ""
    /\ run = NotReturned
    /\ slackMsg = ""
    /\ effects = <<>>
    /\ resp = NoResponse
    /\ processedSinceClear = {}
    /\ reprocessed = {}
    /\ dropped = [events |-> 0, queries |-> 0]

\* no text is being rewritten
RewriteAtRest ==
    /\ rewriteInput = ""
    /\ rewritten = ""
    /\ passes = 0

\* no formatter is being called on its own
FormatAtRest ==
    /\ resultRows = <<>>
    /\ formatMode = "none"
    /\ colIndices = <<>>
    /\ formatted = ""

InitHandler ==
    /\ QueryAtRest
    /\ HandlerAtRest
    /\ RewriteAtRest
    /\ FormatAtRest
    /\ \E p \in CacheProfiles :
          /\ processedEvents = p.events
          /\ recentQueries = p.queries
          /\ recentSlackMessages = p.sent
          /\ slackToken = p.token
          /\ showSqlInSlack = p.showSql
          /\ showQueryIdInSlack = p.showQueryId

\* the event as the inbound-event cache tells events apart
EventIdentity(r) == [eventId |-> r.eventId, text |-> r.text, channel |-> r.channel]

\* marking the key of r empties processedEvents first
ClearsEvents(events, r) ==
    r.eventId # "" /\ Cardinality(events \cup {EventKey(r)}) > EventCacheLimit

\* handler, from its entry to the call of callBedrock (or an earlier return)
HandlerIntake(r) ==
    /\ hpc = "idle"
    /\ invocations < MaxInvocations
    /\ invocations' = invocations + 1
    /\ req' = r
    /\ sql' = ""
    /\ run' = NotReturned
    /\ slackMsg' = ""
    /\ effects' = <<>>
    /\ LET text    == QuestionText(r)
           ignored == EarlyResponse(r) # NoResponse \/ DuplicateEvent(processedEvents, r)
           short   == text = "" \/ Len(text) < MinTextLen
           repeat  == DuplicateQuery(recentQueries, QueryKey(r), now)
           goesOn  == ~ignored /\ ~short /\ ~repeat
           since   == IF ClearsEvents(processedEvents, r) THEN {} ELSE processedSinceClear
       IN  /\ resp' = IF EarlyResponse(r) # NoResponse THEN EarlyResponse(r)
                      ELSE IF DuplicateEvent(processedEvents, r)
                           THEN response(200, "duplicate event")
                      ELSE IF short THEN response(200, "ignored empty message")
                      ELSE IF repeat THEN response(200, "duplicate query ignored")
                      ELSE NoResponse
           /\ processedEvents' = IF ~ignored /\ r.eventId # ""
                                 THEN EventsAfter(processedEvents, EventKey(r))
                                 ELSE processedEvents
           /\ recentQueries' = IF goesOn
                               THEN QueriesAfter(recentQueries, QueryKey(r), now)
                               ELSE recentQueries
           /\ hpc' = IF goesOn THEN "generate" ELSE "idle"
           /\ processedSinceClear' = IF ignored THEN processedSinceClear
                                     ELSE IF goesOn THEN since \cup {EventIdentity(r)}
                                     ELSE since
           /\ reprocessed' = IF ignored THEN reprocessed
                             ELSE IF ClearsEvents(processedEvents, r) THEN {}
                             ELSE IF goesOn /\ EventIdentity(r) \in processedSinceClear
                                  THEN reprocessed \cup {EventIdentity(r)}
                             ELSE reprocessed
    /\ dropped' = [events  |-> Cardinality(processedEvents \cup {EventKey(r)})
                                - Cardinality(processedEvents' \cup {EventKey(r)}),
                   queries |-> Cardinality(DOMAIN recentQueries \cup {QueryKey(r)})
                                - Cardinality(DOMAIN recentQueries' \cup {QueryKey(r)})]
    /\ UNCHANGED <<recentSlackMessages, slackToken, showSqlInSlack,
                   showQueryIdInSlack, now>>
    /\ UNCHANGED qvars
    /\ UNCHANGED rvars
    /\ UNCHANGED fvars

\* callBedrock(prompt) returns the SQL text q
Generate(q) ==
    /\ hpc = "generate"
    /\ sql' = q
    /\ effects' = Append(effects, Effect("callBedrock", QuestionText(req), q))
    /\ hpc' = "query"
    /\ UNCHANGED <<processedEvents, recentQueries, recentSlackMessages, slackToken, showSqlInSlack,
                   showQueryIdInSlack, now,
                   invocations, req, run, slackMsg, resp, processedSinceClear,
                   reprocessed, dropped>>
    /\ UNCHANGED qvars
    /\ UNCHANGED rvars
    /\ UNCHANGED fvars

\* a failed SQL generation that the handler survives and answers
GenerateFailureAnswered ==
    /\ hpc = "generate"
    /\ effects' = Append(effects, Effect("callBedrock", QuestionText(req), "fatal"))
    /\ resp' = response(200, "generation failed")
    /\ hpc' = "idle"
    /\ UNCHANGED <<processedEvents, recentQueries, recentSlackMessages, slackToken, showSqlInSlack,
                   showQueryIdInSlack, now,
                   invocations, req, sql, run, slackMsg, processedSinceClear,
                   reprocessed, dropped>>
    /\ UNCHANGED qvars
    /\ UNCHANGED rvars
    /\ UNCHANGED fvars

\* callBedrock(prompt) ends the process with log.Fatalf
GenerateFatal ==
    /\ hpc = "generate"
    /\ effects' = Append(effects, Effect("callBedrock", QuestionText(req), "fatal"))
    /\ hpc' = "exited"
    /\ UNCHANGED <<processedEvents, recentQueries, recentSlackMessages, slackToken, showSqlInSlack,
                   showQueryIdInSlack, now,
                   invocations, req, sql, run, slackMsg, resp, processedSinceClear,
                   reprocessed, dropped>>
    /\ UNCHANGED qvars
    /\ UNCHANGED rvars
    /\ UNCHANGED fvars

\* the returns of runAthenaQuery the handler is run against: the rejection
\* by the deny-list, the timeout, and the success with a header row
HandledReturns(q) ==
    { r \in runAthenaQueryReturns(q) :
        \/ r.errMsg \in {DeniedMsg, TimedOutMsg}
        \/ r.errMsg = "" /\ r.rows # <<>> }

AllHandledReturns == UNION { HandledReturns(q) : q \in GeneratedSql }

\* runAthenaQuery(ctx, sql) returns r; on an error message the handler
\* builds detailedError
RunQuery(r) ==
    /\ hpc = "query"
    /\ r \in HandledReturns(sql)
    /\ run' = r
    /\ effects' = Append(effects, Effect("runAthenaQuery", sql, r.errMsg))
    /\ IF r.errMsg # ""
       THEN /\ slackMsg' = detailedError(sql, r.qid, r.errMsg)
            /\ hpc' = "post"
       ELSE /\ slackMsg' = ""
            /\ hpc' = "analyze"
    /\ UNCHANGED <<processedEvents, recentQueries, recentSlackMessages, slackToken, showSqlInSlack,
                   showQueryIdInSlack, now,
                   invocations, req, sql, resp, processedSinceClear, reprocessed, dropped>>
    /\ UNCHANGED qvars
    /\ UNCHANGED rvars
    /\ UNCHANGED fvars

\* analyzeResults returns a (from callBedrock when there are data rows) and
\* the handler builds resultMessage
Analyze(a) ==
    /\ hpc = "analyze"
    /\ IF AnalysisWithoutBedrock(run.rows)
       THEN /\ a = NoDataAnalysis
            /\ effects' = effects
       ELSE /\ a \in AnalysisTexts
            /\ effects' = Append(effects, Effect("callBedrock", "analysis", a))
    /\ slackMsg' = resultMessage(QuestionText(req), sql, run.qid, run.rows, a)
    /\ hpc' = "post"
    /\ UNCHANGED <<processedEvents, recentQueries, recentSlackMessages, slackToken, showSqlInSlack,
                   showQueryIdInSlack, now,
                   invocations, req, sql, run, resp, processedSinceClear, reprocessed, dropped>>
    /\ UNCHANGED qvars
    /\ UNCHANGED rvars
    /\ UNCHANGED fvars

\* callBedrock(analysisPrompt) ends the process with log.Fatalf
AnalyzeFatal ==
    /\ hpc = "analyze"
    /\ ~AnalysisWithoutBedrock(run.rows)
    /\ effects' = Append(effects, Effect("callBedrock", "analysis", "fatal"))
    /\ hpc' = "exited"
    /\ UNCHANGED <<processedEvents, recentQueries, recentSlackMessages, slackToken, showSqlInSlack,
                   showQueryIdInSlack, now,
                   invocations, req, sql, run, slackMsg, resp, processedSinceClear,
                   reprocessed, dropped>>
    /\ UNCHANGED qvars
    /\ UNCHANGED rvars
    /\ UNCHANGED fvars

\* postToSlack called a second time when the delivery failed
PostWithRetry(d) ==
    /\ hpc = "post"
    /\ LET first == PostEffects(recentSlackMessages, slackToken, req.channel,
                                slackMsg, now, d)
           sent  == PostCache(recentSlackMessages, req.channel, slackMsg, now)
       IN  /\ effects' = IF first[1].result \in {"", "suppressed"}
                         THEN effects \o first
                         ELSE effects \o first
                              \o PostEffects(sent, slackToken, req.channel, slackMsg,
                                             now, d)
           /\ recentSlackMessages' = sent
    /\ resp' = IF run.errMsg # "" THEN response(200, "error reported to slack")
               ELSE response(200, "ok")
    /\ hpc' = "idle"
    /\ UNCHANGED <<processedEvents, recentQueries, slackToken, showSqlInSlack,
                   showQueryIdInSlack, now, invocations, req,
                   sql, run, slackMsg, processedSinceClear, reprocessed, dropped>>
    /\ UNCHANGED qvars
    /\ UNCHANGED rvars
    /\ UNCHANGED fvars

\* postToSlack(channel, message) and the return of the handler
Post(d) ==
    /\ hpc = "post"
    /\ effects' = effects \o PostEffects(recentSlackMessages, slackToken, req.channel,
                                         slackMsg, now, d)
    /\ recentSlackMessages' = PostCache(recentSlackMessages, req.channel, slackMsg, now)
    /\ resp' = IF run.errMsg # "" THEN response(200, "error reported to slack")
               ELSE response(200, "ok")
    /\ hpc' = "idle"
    /\ UNCHANGED <<processedEvents, recentQueries, slackToken, showSqlInSlack,
                   showQueryIdInSlack, now, invocations, req,
                   sql, run, slackMsg, processedSinceClear, reprocessed, dropped>>
    /\ UNCHANGED qvars
    /\ UNCHANGED rvars
    /\ UNCHANGED fvars

\* time passes, between two invocations or while an invocation waits for
\* Bedrock and Athena: the handler reads the clock at its entry and in
\* postToSlack only
AdvanceClock(t) ==
    /\ hpc \in {"idle", "post"}
    /\ t > now
    /\ now' = t
    /\ UNCHANGED <<processedEvents, recentQueries, recentSlackMessages, slackToken, showSqlInSlack,
                   showQueryIdInSlack,
                   hpc, invocations, req, sql, run, slackMsg, effects, resp,
                   processedSinceClear, reprocessed, dropped>>
    /\ UNCHANGED qvars
    /\ UNCHANGED rvars
    /\ UNCHANGED fvars

NextHandler ==
    \/ \E r \in Requests : HandlerIntake(r)
    \/ \E q \in GeneratedSql : Generate(q)
    \/ GenerateFatal
    \/ \E r \in AllHandledReturns : RunQuery(r)
    \/ \E a \in AnalysisTexts \cup {NoDataAnalysis} : Analyze(a)
    \/ AnalyzeFatal
    \/ \E d \in Deliveries : Post(d)
    \/ \E t \in Instants : AdvanceClock(t)

SpecHandler == InitHandler /\ [][NextHandler]_vars

----------------------------------------------------------------------------
(* One runAthenaQuery invocation, from every input of QueryInputs          *)

DenyWords == {"DROP", "DELETE", "INSERT", "UPDATE"}

RECURSIVE CaseVariants(_)
\* every spelling of the upper-case word w in a mix of upper and lower case
CaseVariants(w) ==
    IF Len(w) = 0 THEN {""}
    ELSE LET LowerChar(c) == CharAt(LowerAlpha, CHOOSE i \in 1..26 : CharAt(UpperAlpha, i) = c)
         IN  { c \o r : c \in {CharAt(w, 1), LowerChar(CharAt(w, 1))},
                         r \in CaseVariants(SubSeq(w, 2, Len(w))) }

DenyWordSpellings == UNION { CaseVariants(w) : w \in DenyWords }

\* each spelling alone, and inside a longer statement; and the spellings
\* with a letter outside ASCII whose upper case is an ASCII letter, U+017F
\* for s and U+0131 for i
DeniedInputs ==
    DenyWordSpellings
    \cup { "SELECT 1; " \o v \o " TABLE x" : v \in DenyWordSpellings }
    \cup { "in" \o EncodeRune(383) \o "ert into t values (1)",
           EncodeRune(305) \o "NSERT INTO t VALUES (1)",
           "SELECT 1; " \o EncodeRune(160) \o "DELETE FROM t" }

AcceptedInputs ==
    { "SELECT 1",
      " SELECT * FROM amazon_security_lake_table_us_east_1_waf_2_0 ",
      "SELECT dro, p FROM amazon_security_lake_table_ap_northeast_1_waf_2_0",
      \* a letter whose upper case is no ASCII letter, white space outside
      \* ASCII around the text, and a byte that is no UTF-8
      "SELECT 'dr" \o EncodeRune(248) \o "p' FROM t",
      EncodeRune(160) \o "SELECT '" \o EncodeRune(27700) \o "'" \o EncodeRune(12288),
      "SELECT 'dr" \o CharAt(HighBytes, 128) \o "op' FROM t" }

QueryInputs == DeniedInputs \cup AcceptedInputs

InitQuery ==
    /\ query \in QueryInputs
    /\ parentDone = FALSE
    /\ mpc = "entry"
    /\ ppc = "none"
    /\ ctxErr = ""
    /\ doneCh = FALSE
    /\ tickC = 0
    /\ errorMsg = ""
    /\ state = ""
    /\ attempts = 0
    /\ region = ""
    /\ qid = ""
    /\ calls = <<>>
    /\ statusLog = <<>>
    /\ ctxAtFetch = <<>>
    /\ nextToken = "none"
    /\ ret = NotReturned
    /\ HandlerAtRest
    /\ RewriteAtRest
    /\ FormatAtRest
    /\ processedEvents = {}
    /\ recentQueries = <<>>
    /\ recentSlackMessages = <<>>
    /\ slackToken = ""
    /\ showSqlInSlack = TRUE
    /\ showQueryIdInSlack = TRUE

NextQuery ==
    \/ Rejected
    \/ \E e \in BackendErrors : SubmitFails(e)
    \/ \E id \in ExecutionIds : Submitted(id)
    \/ CallerSelect
    \/ CallerDoneFailed
    \/ CallerFetchResults
    \/ \E e \in BackendErrors : CallerResultsFail(e)
    \/ \E rows \in ResultRowSets, more \in BOOLEAN : CallerResults(rows, more)
    \/ CallerStopQuery
    \/ CallerTimeout
    \/ PollSelect
    \/ PollCtxDone
    \/ PollFetch
    \/ \E e \in BackendErrors : PollFetchFails(e)
    \/ \E st \in AthenaStates, reason \in StateReasons : PollFetched(st, reason)
    \/ Tick
    \/ DeadlineFires
    \/ ParentCancelled

SpecQuery == InitQuery /\ [][NextQuery]_vars

\* one query the deny-list rejects and one it accepts
InitQueryLive == InitQuery /\ query \in {"DROP", "SELECT 1"}

\* invocations with every goroutine scheduled and the timers running: a step
\* of the caller, a step of the polling goroutine (each GetQueryExecution
\* call returns), the ticker and the 45-second timer are each taken when
\* they stay possible. A select with several ready cases takes one of them
\* at random, so a polling goroutine that reaches its select again and
\* again with the context done does not take the tick each time: the step
\* of PollSelect to case <-queryContext.Done() is taken when it is possible
\* again and again
SpecQueryLive ==
    /\ InitQueryLive
    /\ [][NextQuery]_vars
    /\ WF_vars(\/ Rejected
               \/ \E e \in BackendErrors : SubmitFails(e)
               \/ \E id \in ExecutionIds : Submitted(id)
               \/ CallerSelect
               \/ CallerDoneFailed
               \/ CallerFetchResults
               \/ \E e \in BackendErrors : CallerResultsFail(e)
               \/ \E rows \in ResultRowSets, more \in BOOLEAN : CallerResults(rows, more)
               \/ CallerStopQuery
               \/ CallerTimeout)
    /\ WF_vars(\/ PollSelect
               \/ PollCtxDone
               \/ PollFetch
               \/ \E e \in BackendErrors : PollFetchFails(e)
               \/ \E st \in AthenaStates, reason \in StateReasons : PollFetched(st, reason))
    /\ SF_vars(PollSelect /\ ppc' = "ctx")
    /\ WF_vars(Tick)
    /\ WF_vars(DeadlineFires)

----------------------------------------------------------------------------
(* preprocessSqlQuery applied to SQL texts, once and again                 *)

\* how many times one behaviour applies preprocessSqlQuery to its text
MaxPasses == 2

\* SQL texts: a FROM part over no, one or both tables of the two catalogs,
\* unqualified and qualified, followed by a WHERE part with BETWEEN clauses
\* on time_dt and on other columns, with full dates and year-only bounds
RewriteInputs ==
    LET From ==
            { "SELECT * FROM t",
              "SELECT * FROM " \o TableApNe,
              "SELECT * FROM " \o TableUsEast,
              "SELECT * FROM " \o TableApNe \o " a, " \o TableUsEast \o " b",
              "SELECT * FROM amazon_security_lake_glue_db_ap_northeast_1."
                 \o TableApNe \o " a, " \o TableUsEast \o " b",
              "SELECT * FROM " \o TableApNe
                 \o " a, amazon_security_lake_glue_db_us_east_1." \o TableUsEast \o " b",
              "  SELECT * FROM " \o TableApNe \o " a, " \o TableApNe \o " b" }
        Where ==
            { "",
              " WHERE time_dt BETWEEN '2024-01-01 10:00:00' AND '2024-01-01 12:00:00'",
              " WHERE time_dt BETWEEN '2020' AND '2021'",
              " WHERE y BETWEEN '2020' AND '2021'",
              " WHERE a = '2021' AND y BETWEEN '2020-05' AND '2021'",
              " WHERE a = '2020' AND y BETWEEN '2020' AND '2020' ",
              " WHERE y BETWEEN '2020' AND '2021' AND z BETWEEN '2020' AND '2021'",
              " WHERE time_dt BETWEEN '2024-01-01 10:00:00Z' AND '2024-13-01 00:00:00'\n" }
    IN  { f \o w : f \in From, w \in Where }

InitRewrite ==
    /\ QueryAtRest
    /\ HandlerAtRest
    /\ processedEvents = {}
    /\ recentQueries = <<>>
    /\ recentSlackMessages = <<>>
    /\ slackToken = ""
    /\ showSqlInSlack = TRUE
    /\ showQueryIdInSlack = TRUE
    /\ rewriteInput \in RewriteInputs
    /\ rewritten = rewriteInput
    /\ passes = 0
    /\ FormatAtRest

\* query = preprocessSqlQuery(query)
RewritePass ==
    /\ passes < MaxPasses
    /\ rewritten' = preprocessSqlQuery(rewritten)
    /\ passes' = passes + 1
    /\ UNCHANGED rewriteInput
    /\ UNCHANGED qvars
    /\ UNCHANGED hvars
    /\ UNCHANGED fvars

NextRewrite == RewritePass

SpecRewrite == InitRewrite /\ [][NextRewrite]_vars

----------------------------------------------------------------------------
(* The two result formatters applied to result tables                      *)

\* result tables: no row at all, or a header row followed by 0 to 25 data
\* rows. The headers hold labeled columns, columns with the _col prefix at
\* and away from the position their number names, and cells without a
\* value; the data rows are complete, or the first of them holds no value,
\* or the first of them holds fewer cells than the header, or the first of
\* them holds values with a character of two bytes (U+00E9) and of three
\* bytes (U+6C34).
FormatInputs ==
    LET val(v)  == [nil |-> FALSE, v |-> v]
        null    == [nil |-> TRUE, v |-> ""]
        Headers == { <<val("status"), val("count")>>,
                     <<val("n"), val("c")>>,
                     <<val("_col0"), val("count")>>,
                     <<val("_col0"), val("_col1")>>,
                     <<val("_col1"), val("_col2")>>,
                     <<val("_col1"), val("_col0")>>,
                     <<val("_col0")>>,
                     <<val("_col1")>>,
                     <<null, val("_col0")>>,
                     <<val("a"), null, val("_col2")>>,
                     <<null, null>>,
                     <<>> }
        Counts  == {0, 1, 2, 18, 19, 20, 21, 25}
        Shapes  == {"complete", "null", "short", "accented"}
        row(k, shape) ==
            IF k = 1 /\ shape = "null" THEN <<null, null, null>>
            ELSE IF k = 1 /\ shape = "short" THEN <<val("x")>>
            ELSE IF k = 1 /\ shape = "accented"
                 THEN <<val(EncodeRune(233)), val(EncodeRune(27700) \o "1"),
                        val("BLOCK")>>
            ELSE <<val("x"), val(ToString(k % 10)), val("BLOCK")>>
    IN  { <<>> } \cup
        { <<h>> \o [k \in 1..n |-> row(k, shape)] :
            h \in Headers, n \in Counts, shape \in Shapes }

InitFormat ==
    /\ QueryAtRest
    /\ HandlerAtRest
    /\ RewriteAtRest
    /\ processedEvents = {}
    /\ recentQueries = <<>>
    /\ recentSlackMessages = <<>>
    /\ slackToken = ""
    /\ showSqlInSlack = TRUE
    /\ showQueryIdInSlack = TRUE
    /\ resultRows \in FormatInputs
    /\ formatMode = "none"
    /\ colIndices = <<>>
    /\ formatted = ""

\* formatAthenaResults(rows)
FormatForDisplay ==
    /\ formatMode = "none"
    /\ formatMode' = "display"
    /\ colIndices' = IF Len(resultRows) = 0 THEN <<>> ELSE SelectColumns(resultRows[1])
    /\ formatted' = formatAthenaResults(resultRows)
    /\ UNCHANGED resultRows
    /\ UNCHANGED qvars
    /\ UNCHANGED hvars
    /\ UNCHANGED rvars

\* formatResultsForAnalysis(rows)
FormatForAnalysis ==
    /\ formatMode = "none"
    /\ formatMode' = "analysis"
    /\ colIndices' = IF Len(resultRows) = 0 THEN <<>> ELSE SelectColumns(resultRows[1])
    /\ formatted' = formatResultsForAnalysis(resultRows)
    /\ UNCHANGED resultRows
    /\ UNCHANGED qvars
    /\ UNCHANGED hvars
    /\ UNCHANGED rvars

NextFormat == FormatForDisplay \/ FormatForAnalysis

SpecFormat == InitFormat /\ [][NextFormat]_vars

----------------------------------------------------------------------------
(* Properties of runAthenaQuery                                            *)

CallsOf(op) == { i \in DOMAIN calls : calls[i].op = op }
NumCalls(op) == Cardinality(CallsOf(op))

\* the invocation got past the deny-list and selected a region
RegionSelected == calls # <<>>

\* every status answer so far is a non-terminal state without error
OnlyNonTerminalAnswers ==
    \A i \in DOMAIN statusLog :
        statusLog[i].err = "" /\ statusLog[i].state \notin TerminalStates

\* C1: when the submission succeeded, every status fetch answered a
\* non-terminal state without error and the 45-second deadline fired, the
\* call returns the timed-out outcome with the execution id and the region,
\* and StopQueryExecution was called exactly once.
C1_DeadlineYieldsTimedOut ==
    ( /\ ret.returned
      /\ qid # ""
      /\ ctxErr = "deadline"
      /\ OnlyNonTerminalAnswers )
    => /\ ret.errMsg = TimedOutMsg
       /\ ret.qid = qid
       /\ ret.region = region
       /\ NumCalls("StopQueryExecution") = 1

\* the four words, in upper and in lower case
DenyWordsBothCases ==
    { <<"DROP", "drop">>, <<"DELETE", "delete">>, <<"INSERT", "insert">>,
      <<"UPDATE", "update">> }

\* the text holds one of the four words at some position, each letter in
\* either case; the lower case of S is s and U+017F, that of I is i and
\* U+0131
HasDenyWordAnyCase(q) ==
    LET Spellings(w, k) ==
            {CharAt(w[1], k), CharAt(w[2], k)}
            \cup (IF CharAt(w[1], k) = "S" THEN {EncodeRune(383)}
                  ELSE IF CharAt(w[1], k) = "I" THEN {EncodeRune(305)}
                  ELSE {})
        RECURSIVE SpelledAt(_, _, _)
        \* the letters of w from the k-th on stand at position i of q
        SpelledAt(w, k, i) ==
            \/ k > Len(w[1])
            \/ \E c \in Spellings(w, k) :
                  /\ i + Len(c) - 1 <= Len(q)
                  /\ SubSeq(q, i, i + Len(c) - 1) = c
                  /\ SpelledAt(w, k + 1, i + Len(c))
    IN  \E w \in DenyWordsBothCases : \E i \in 1..Len(q) : SpelledAt(w, 1, i)

\* C2: a SQL text that contains DROP, DELETE, INSERT or UPDATE in any mix
\* of case is answered with an error message and no backend call is made:
\* the text of an invocation that made a backend call, or returned without
\* an error message, holds none of the four words in any mix of case.
C2_DenyListBlocksSubmission ==
    (calls # <<>> \/ (ret.returned /\ ret.errMsg = ""))
    => ~HasDenyWordAnyCase(query)

C2_Witness ==
    /\ query = "SELECT 1; dRoP TABLE x"
    /\ ret.returned
    /\ ret.errMsg = DeniedMsg
    /\ calls = <<>>

\* some status fetch has answered SUCCEEDED, FAILED or CANCELLED
TerminalAnswered == \E i \in DOMAIN statusLog : statusLog[i].state \in TerminalStates

\* C3: once a status fetch has answered SUCCEEDED, FAILED or CANCELLED the
\* polling goroutine issues no further status fetch and the recorded state
\* never changes; after any other answer it goes back to its select.
C3_TerminalStatesAbsorbing ==
    [][ /\ TerminalAnswered
           => /\ Len(ctxAtFetch') = Len(ctxAtFetch)
              /\ statusLog' = statusLog
              /\ state' = state
              /\ ppc' = "exited"
        /\ ( /\ Len(statusLog') > Len(statusLog)
             /\ statusLog'[Len(statusLog')].err = ""
             /\ statusLog'[Len(statusLog')].state \notin TerminalStates )
           => /\ ppc' = "select"
              /\ ~doneCh'
      ]_vars

C3_Witness ==
    /\ Len(statusLog) = 2
    /\ statusLog[1].state = "RUNNING"
    /\ statusLog[2].state = "CANCELLED"
    /\ state = "CANCELLED"
    /\ ppc = "exited"
    /\ ret.returned

\* C4: once the deadline context has fired the polling goroutine starts no
\* further status fetch, and at its next select it takes the Done case even
\* when a tick is pending.
C4_ExitsAtNextWaitAfterDeadline ==
    [][ ctxErr = "deadline"
        => /\ Len(ctxAtFetch') = Len(ctxAtFetch)
           /\ (ppc = "select" /\ ppc' # ppc) => ppc' = "ctx"
      ]_vars

\* C5: GetQueryResults is issued at most once, always with a maximum of 20
\* rows, and a page that carries a NextToken is not followed by a second
\* fetch.
C5_SingleBoundedResultPage ==
    /\ NumCalls("GetQueryResults") <= 1
    /\ \A i \in CallsOf("GetQueryResults") : calls[i].max = 20
    /\ nextToken = "present"
       => /\ NumCalls("GetQueryResults") = 1
          /\ calls[Len(calls)].op = "GetQueryResults"
          /\ ret.returned

C5_Witness ==
    /\ nextToken = "present"
    /\ ret.returned
    /\ Len(ret.rows) = 2
    /\ NumCalls("GetQueryResults") = 1

\* the failure classes after region selection
SubmissionFailed == RegionSelected /\ ret.returned /\ qid = ""
StatusFetchFailed == \E i \in DOMAIN statusLog : statusLog[i].err # ""
EndedFailedOrCancelled ==
    \E i \in DOMAIN statusLog : statusLog[i].state \in {"FAILED", "CANCELLED"}
TimedOut == NumCalls("StopQueryExecution") > 0
ResultFetchFailed == NumCalls("GetQueryResults") > 0 /\ nextToken = "none"
FailureClass ==
    \/ SubmissionFailed
    \/ StatusFetchFailed
    \/ EndedFailedOrCancelled
    \/ TimedOut
    \/ ResultFetchFailed

\* C6: every failure after region selection returns a non-empty error
\* message, no rows and the region selected for the query; rows come only
\* with an empty error message.
C6_FailuresCarryMessageAndRegion ==
    (ret.returned /\ RegionSelected)
    => /\ ret.region = getQueryRegion(preprocessSqlQuery(query))
       /\ FailureClass => (ret.errMsg # "" /\ ret.rows = Nil)
       /\ ret.rows # Nil => ret.errMsg = ""

C6_Witness ==
    /\ ret.returned
    /\ ret.errMsg = "Athena query failed: SYNTAX_ERROR"
    /\ ret.rows = Nil
    /\ ret.region = UsEast1
    /\ ret.qid = "q-1"

\* C7: StartQueryExecution is called at most once; a failed submission is
\* followed by no other backend call; a failed status fetch is the last
\* status fetch and no result fetch follows it.
C7_NoRetry ==
    /\ NumCalls("StartQueryExecution") <= 1
    /\ SubmissionFailed => Len(calls) = 1
    /\ StatusFetchFailed
       => /\ statusLog[Len(statusLog)].err # ""
          /\ \A i \in 1..(Len(statusLog) - 1) : statusLog[i].err = ""
          /\ NumCalls("GetQueryExecution") = Len(statusLog)
          /\ NumCalls("GetQueryResults") = 0

C7_Witness ==
    /\ Len(statusLog) = 2
    /\ statusLog[1].state = "RUNNING"
    /\ statusLog[2].err = "ThrottlingException"
    /\ ret.returned
    /\ ret.errMsg = "Failed to get query status: ThrottlingException"

----------------------------------------------------------------------------
(* Properties of the handler and its caches                                *)

\* every return of a runAthenaQuery invocation is one the handler is
\* modelled to receive (checked under SpecQuery)
SummaryCoversReturns == ret.returned => ret \in runAthenaQueryReturns(query)

\* the step is a handler entry that reached the recent-query check
QueryCheckStep ==
    /\ hpc = "idle"
    /\ invocations' = invocations + 1
    /\ hpc' = "generate" \/ resp'.body = "duplicate query ignored"

\* the step is a postToSlack call
SlackCheckStep == hpc = "post" /\ hpc' = "idle"

\* the calls of op the invocation has made
EffectsOf(op) == { i \in DOMAIN effects : effects[i].op = op }

\* the key is absent from the cache m or was recorded at least window ago
AbsentOrAged(m, key, window) == key \notin DOMAIN m \/ now - m[key] >= window

\* C8: in the recent-query cache (window 5 s) and the outbound-notification
\* cache (window 180 s) a key that is absent, or whose recorded age is at
\* least the window, is accepted and recorded with the current time; a key
\* whose recorded age is less than the window is rejected as a duplicate and
\* the cache is left as it was.
C8_WindowsAcceptAndReject ==
    [][ /\ QueryCheckStep =>
             IF AbsentOrAged(recentQueries, QueryKey(req'), 5)
             THEN /\ hpc' = "generate"
                  /\ QueryKey(req') \in DOMAIN recentQueries'
                  /\ recentQueries'[QueryKey(req')] = now
             ELSE /\ hpc' = "idle"
                  /\ resp' = response(200, "duplicate query ignored")
                  /\ recentQueries' = recentQueries
        /\ SlackCheckStep =>
             LET h    == msgHash(req.channel, slackMsg)
                 call == effects'[Len(effects) + 1]
             IN  /\ call.op = "postToSlack"
                 /\ IF AbsentOrAged(recentSlackMessages, h, 180)
                    THEN /\ call.result # "suppressed"
                         /\ h \in DOMAIN recentSlackMessages'
                         /\ recentSlackMessages'[h] = now
                    ELSE /\ call.result = "suppressed"
                         /\ Len(effects') = Len(effects) + 1
                         /\ recentSlackMessages' = recentSlackMessages
      ]_vars

\* the same question was accepted a second time once its window had passed,
\* and the second, identical notification was suppressed inside its window
C8_Witness ==
    /\ invocations = 2
    /\ reprocessed # {}
    /\ now = 1005
    /\ recentQueries[QueryKey(req)] = 1005
    /\ \E i \in EffectsOf("postToSlack") : effects[i].result = "suppressed"

\* the step is a handler entry for a request whose event key is recorded
RedeliveryStep ==
    /\ hpc = "idle"
    /\ invocations' = invocations + 1
    /\ EventKey(req') \in processedEvents

\* a redelivery is answered as a duplicate, calls nothing and leaves the
\* caches as they were
RedeliveryIgnored ==
    RedeliveryStep =>
        /\ hpc' = "idle"
        /\ effects' = <<>>
        /\ resp'.code = 200
        /\ req'.retryNum = "" => resp'.body = "duplicate event"
        /\ UNCHANGED <<processedEvents, recentQueries, recentSlackMessages>>

\* C9 as stated: a redelivered event whose key is recorded in the
\* inbound-event cache is answered as a duplicate without SQL generation,
\* query submission or notification, and no event is processed more than
\* once between two clears of that cache.
C9_EveryEventProcessedOncePerClear ==
    [][ RedeliveryIgnored /\ reprocessed' = {} ]_vars

\* C9: a redelivered event whose key is recorded in the inbound-event cache
\* is answered as a duplicate without SQL generation, query submission or
\* notification, and an event that carries an event id is processed at most
\* once between two clears of that cache.
C9_IdentifiedEventProcessedOncePerClear ==
    [][ RedeliveryIgnored /\ \A e \in reprocessed' : e.eventId = "" ]_vars

\* the event Ev1 was processed, and its redelivery was answered as a
\* duplicate
C9_Witness ==
    /\ invocations = 2
    /\ req = UserEvent(Mentioned, "Ev1")
    /\ EventIdentity(req) \in processedSinceClear
    /\ resp = response(200, "duplicate event")
    /\ effects = <<>>

\* C10: when the handler inserts a key that takes the inbound-event cache
\* over 100 entries, the cache afterwards holds exactly that key; when it
\* inserts a key that takes the recent-query cache over 200 entries while
\* every entry is younger than 600 s, the cache afterwards holds exactly
\* that key, recorded at the current time.
C10_OverflowKeepsTriggeringKey ==
    [][ /\ ( /\ processedEvents' # processedEvents
             /\ Cardinality(processedEvents \cup {EventKey(req')}) > 100 )
           => processedEvents' = {EventKey(req')}
        /\ ( /\ recentQueries' # recentQueries
             /\ Cardinality(DOMAIN recentQueries \cup {QueryKey(req')}) > 200
             /\ \A k \in DOMAIN recentQueries : now - recentQueries[k] < 600 )
           => /\ DOMAIN recentQueries' = {QueryKey(req')}
              /\ recentQueries'[QueryKey(req')] = now
      ]_vars

\* both caches were full, the invocation took them over their limits and
\* each now holds the key of this invocation alone
C10_Witness ==
    /\ dropped = [events |-> 100, queries |-> 200]
    /\ processedEvents = {EventKey(req)}
    /\ DOMAIN recentQueries = {QueryKey(req)}
    /\ recentQueries[QueryKey(req)] = now


\* C11: after every handler invocation, whatever the events and the timing,
\* the inbound-event cache holds at most 100 entries and the recent-query
\* cache at most 200.
C11_CachesWithinLimits ==
    /\ Cardinality(processedEvents) <= 100
    /\ Cardinality(DOMAIN recentQueries) <= 200

\* an invocation marked its event in a cache of 99 and recorded its question
\* in a cache of 200, of which the cleanup dropped the 51 old entries
C11_Witness ==
    /\ invocations >= 1
    /\ hpc # "idle"
    /\ EventKey(req) \in processedEvents
    /\ Cardinality(processedEvents) = 100
    /\ QueryKey(req) \in DOMAIN recentQueries
    /\ Cardinality(DOMAIN recentQueries) = 150
    /\ dropped = [events |-> 0, queries |-> 51]

\* C12: after every postToSlack call, whatever the messages and the timing,
\* the outbound-notification cache holds at most its capacity of 50 entries.
C12_SlackCacheWithinCapacity ==
    Cardinality(DOMAIN recentSlackMessages) <= 50

\* the handler has returned a response for the request req
HandlerReturned == invocations >= 1 /\ hpc = "idle" /\ resp # NoResponse

\* neither json.Unmarshal call of the handler accepts the body
BodyUnparsable(r) == r.shape \in {"malformed", "mismatch"}

\* the handler reaches a json.Unmarshal call that fails: there is no
\* redelivery header, and the body is no JSON, or it is JSON without a string
\* challenge that the event wrapper cannot hold
ParseStepFails(r) ==
    /\ r.retryNum = ""
    /\ \/ r.shape = "malformed"
       \/ r.shape = "mismatch" /\ ~r.challenge.present

\* C13 as stated: every response has status 200, except that a body that
\* cannot be parsed is answered with status 400.
C13_Status400IffBodyUnparsable ==
    HandlerReturned =>
        /\ resp.code \in {200, 400}
        /\ resp.code = 400 <=> BodyUnparsable(req)

\* C13, amended: every response has status 200 or 400, and it is 400 exactly
\* when the handler reaches a parse step that fails; a request with the
\* redelivery header is answered 200 before its body is looked at.
C13_Status400IffParseStepFails ==
    HandlerReturned =>
        /\ resp.code \in {200, 400}
        /\ resp.code = 400 <=> ParseStepFails(req)

\* the second invocation of a process got a body that is no JSON, without a
\* redelivery header, and answered 400
C13_Witness ==
    /\ HandlerReturned
    /\ invocations = 2
    /\ req.shape = "malformed" /\ req.retryNum = ""
    /\ resp = response(400, "invalid request")
    /\ effects = <<>>

\* the invocation that has returned found the question empty or too short
ShortQuestionRejected == HandlerReturned /\ resp = response(200, "ignored empty message")

\* the invocation that has returned had its SQL rejected by the deny-list
DeniedSqlRejected == HandlerReturned /\ run # NotReturned /\ run.errMsg = DeniedMsg

\* postToSlack was called with a text that holds the rejection
RejectionPosted ==
    \E i \in EffectsOf("postToSlack") : Contains(effects[i].arg, DeniedMsg)

\* no execution exists: runAthenaQuery was not called, or gave no id
NoQuerySubmitted == run = NotReturned \/ run.qid = ""

\* C14 as stated: for a generated SQL that hits the deny-list and for a
\* question that is empty or shorter than 3 characters alike, the handler
\* posts a chat message that reports the rejection and submits no query.
C14_BothRejectionsPosted ==
    /\ DeniedSqlRejected => RejectionPosted /\ NoQuerySubmitted
    /\ ShortQuestionRejected => EffectsOf("postToSlack") # {} /\ NoQuerySubmitted

\* C14, amended: a deny-listed SQL makes the handler call postToSlack once,
\* for the user's channel, with the rejection, and no query is submitted; a
\* question that is empty or shorter than 3 bytes after the mention is
\* stripped and the white space trimmed (len counts bytes) is ignored
\* without any call: no SQL generation, no query, no chat message.
C14_DeniedPostedShortIgnored ==
    /\ DeniedSqlRejected =>
          /\ RejectionPosted
          /\ Cardinality(EffectsOf("postToSlack")) = 1
          /\ msgHash(req.channel, slackMsg) \in DOMAIN recentSlackMessages
          /\ NoQuerySubmitted
          /\ resp = response(200, "error reported to slack")
    /\ ShortQuestionRejected =>
          /\ Len(QuestionText(req)) < MinTextLen
          /\ effects = <<>>
          /\ sql = ""
          /\ NoQuerySubmitted

\* the rejection of a deny-listed SQL was delivered to Slack
C14_Witness ==
    /\ DeniedSqlRejected
    /\ DenyListed(sql)
    /\ RejectionPosted
    /\ \E i \in EffectsOf("chat.postMessage") :
          effects[i].result = "ok" /\ Contains(effects[i].arg, DeniedMsg)

\* the callBedrock call for the SQL text ended in log.Fatalf: the call is
\* logged as fatal and runAthenaQuery was never reached
GenerationFailed ==
    /\ run = NotReturned
    /\ \E i \in EffectsOf("callBedrock") : effects[i].result = "fatal"

\* C15: when the SQL generation fails or answers without a text content, the
\* invocation is aborted: no query is submitted, no chat message is posted,
\* the handler returns no response, and the process takes no further step.
C15_GenerationFailureAborts ==
    GenerationFailed =>
        /\ hpc = "exited"
        /\ resp = NoResponse
        /\ sql = ""
        /\ EffectsOf("runAthenaQuery") = {}
        /\ EffectsOf("postToSlack") = {}
        /\ EffectsOf("chat.postMessage") = {}
        /\ ~ENABLED NextHandler

\* the second invocation of a process was aborted in its SQL generation,
\* after its question had been recorded in the caches
C15_Witness ==
    /\ GenerationFailed
    /\ invocations = 2
    /\ hpc = "exited"
    /\ QueryKey(req) \in DOMAIN recentQueries
    /\ Len(effects) = 1

\* what postToSlack returned in the invocation, as a set: "" for nil after a
\* delivery, "suppressed" for nil without one, or the text of the error
PostResults == { effects[i].result : i \in EffectsOf("postToSlack") }

\* C16: in one invocation postToSlack is called at most once, and whatever it
\* returns (success, suppression or an error) the handler returns status 200
\* right after it, without another call.
C16_PostOnceThenReturn200 ==
    /\ Cardinality(EffectsOf("postToSlack")) <= 1
    /\ Cardinality(EffectsOf("chat.postMessage")) <= 1
    /\ EffectsOf("postToSlack") # {} =>
          /\ HandlerReturned
          /\ resp.code = 200
          /\ effects[Len(effects)].op \in {"postToSlack", "chat.postMessage"}

\* postToSlack returned the error of a failed delivery and the handler
\* answered 200
C16_Witness ==
    /\ HandlerReturned
    /\ PostResults = {"Slack API error: channel_not_found"}
    /\ resp = response(200, "ok")

\* runAthenaQuery failed on a text that it rewrote before submitting it
FailedAfterRewriting ==
    /\ run # NotReturned
    /\ run.errMsg # ""
    /\ ~DenyListed(sql)
    /\ preprocessSqlQuery(sql) # sql

\* C17: when a query fails after rewriting, the SQL shown in the error
\* message is the rewritten SQL that was submitted, the output of
\* preprocessSqlQuery.
C17_ErrorShowsSubmittedSql ==
    FailedAfterRewriting /\ slackMsg # "" =>
        Contains(slackMsg,
                 "Executed SQL:\n" \o CodeFence \o "\n" \o preprocessSqlQuery(sql)
                 \o "\n" \o CodeFence)

\* a step that starts an invocation for a request with the redelivery header
RetryIntakeStep == invocations' = invocations + 1 /\ req'.retryNum # ""

\* C18: a request with a non-empty X-Slack-Retry-Num header is answered as
\* ignored and leaves the three dedup caches as they were, with no SQL
\* generation, no query submission and no chat message, whatever its body.
C18_RetryHeaderShortCircuits ==
    [][ RetryIntakeStep =>
          /\ resp' = response(200, "retry ignored")
          /\ hpc' = "idle"
          /\ effects' = <<>>
          /\ processedEvents' = processedEvents
          /\ recentQueries' = recentQueries
          /\ recentSlackMessages' = recentSlackMessages ]_vars

\* a redelivered event that no cache holds, which would have been processed
\* without the header, was answered as ignored
C18_Witness ==
    /\ HandlerReturned
    /\ req.retryNum # "" /\ req.shape = "object"
    /\ resp = response(200, "retry ignored")
    /\ EventKey(req) \notin processedEvents
    /\ QueryKey(req) \notin DOMAIN recentQueries
    /\ effects = <<>>

\* C19: preprocessSqlQuery is idempotent: a second pass over the output of
\* the first changes nothing, its length included, also when a year-only
\* bound of a BETWEEN clause occurs elsewhere in the query.
C19_RewriteIdempotent ==
    passes = 1 =>
        /\ preprocessSqlQuery(rewritten) = rewritten
        /\ Len(preprocessSqlQuery(rewritten)) = Len(rewritten)

\* the qualification decided for one catalog alone: every reference to its
\* table is prefixed with its database name when the text names the table
\* and does not hold the database name yet
QualifiedForCatalog(q, table, db) ==
    IF Contains(q, table) /\ ~Contains(q, db)
    THEN Replace(q, table, db \o "." \o table, -1)
    ELSE q

\* the first pass with the qualification decided per catalog
RewrittenPerCatalog(q) ==
    ExpandYears(CastTimeDt(
        QualifiedForCatalog(
            QualifiedForCatalog(TrimSpace(q), TableApNe,
                                "amazon_security_lake_glue_db_ap_northeast_1"),
            TableUsEast, "amazon_security_lake_glue_db_us_east_1")))

\* C20: table qualification is decided per catalog: the references to a
\* catalog's table are prefixed exactly when that catalog's qualified name is
\* not in the text yet, whether or not the other catalog's is.
C20_QualificationPerCatalog ==
    passes = 1 => rewritten = RewrittenPerCatalog(rewriteInput)

\* C21: every BETWEEN clause with quoted bounds, one bound to time_dt
\* included, has a four-digit lower bound YYYY rewritten to
\* TIMESTAMP 'YYYY-01-01 00:00:00' and a four-digit upper bound YYYY to
\* TIMESTAMP 'YYYY-12-31 23:59:59'.
C21_YearBoundsExpanded ==
    passes = 1 =>
        LET clauses == FindAllBetween(rewriteInput, 1)
            year(v) == Len(v) = 4 /\ \A i \in 1..4 : CharAt(v, i) \in Digits
        IN  \A k \in 1..Len(clauses) :
                /\ year(clauses[k].d1) =>
                       Contains(rewritten, "BETWEEN TIMESTAMP '" \o clauses[k].d1
                                               \o "-01-01 00:00:00' AND ")
                /\ year(clauses[k].d2) =>
                       Contains(rewritten, " AND TIMESTAMP '" \o clauses[k].d2
                                               \o "-12-31 23:59:59'")

(* Properties of the result formatters *)

\* the number of line ends in a text
LineEnds(text) == Cardinality({ i \in 1..Len(text) : CharAt(text, i) = "\n" })

TruncationNote == "...(Results limited to 20 rows)\n"

\* the data lines of a table formatAthenaResults rendered: the lines of the
\* text without the two fences, the header line, the separator line and the
\* note
RenderedDataRows ==
    LineEnds(formatted) - 4 - (IF Contains(formatted, TruncationNote) THEN 1 ELSE 0)

\* formatAthenaResults rendered a table: the rows had a header with a
\* column to display
TableRendered ==
    /\ formatMode = "display"
    /\ Len(resultRows) >= 1
    /\ colIndices # <<>>

\* C22: for a header row followed by n data rows, formatAthenaResults renders
\* min(n, 20) data rows and appends the truncation note exactly when n is
\* greater than 20.
C22_DisplaysTwentyDataRows ==
    TableRendered =>
        LET n == Len(resultRows) - 1
        IN  /\ RenderedDataRows = (IF n < 20 THEN n ELSE 20)
            /\ Contains(formatted, TruncationNote) <=> n > 20

\* a formatter ran on rows that have a header row
HeaderFormatted == formatMode # "none" /\ Len(resultRows) >= 1

NoColumnsMsg == "No displayable columns found"

\* colIndices holds the positions of the set chosen, in ascending order, and
\* the text shows the labels of exactly those columns, or the fixed message
\* when no column is chosen
ShowsColumns(chosen) ==
    LET header == resultRows[1]
    IN  /\ { colIndices[c] : c \in 1..Len(colIndices) } = chosen
        /\ \A c \in 1..(Len(colIndices) - 1) : colIndices[c] < colIndices[c + 1]
        /\ formatted = NoColumnsMsg <=> chosen = {}
        /\ \A i \in 1..Len(header) :
               ~header[i].nil /\ chosen # {} =>
                   (Contains(formatted, header[i].v) <=> i \in chosen)

\* C23 as stated: both formatters select the labeled columns if there are
\* any, otherwise the anonymous columns except the one at position 0,
\* otherwise every column, and answer with the fixed message when the
\* header has no column.
C23_AnonymousExceptPositionZero ==
    HeaderFormatted =>
        LET header  == resultRows[1]
            Named   == { i \in 1..Len(header) : ~header[i].nil }
            Labeled == { i \in Named : ~HasPrefix(header[i].v, "_col") }
            Rest    == { i \in Named \ Labeled : i # 1 }
        IN  ShowsColumns(IF Labeled # {} THEN Labeled
                         ELSE IF Rest # {} THEN Rest ELSE Named)

\* C23 (amended): both formatters select the labeled columns if there are
\* any, otherwise the anonymous columns except those named _col0, wherever
\* they stand, otherwise every column with a name, and answer with the
\* fixed message when the header has no column with a name.
C23_AnonymousExceptNamedCol0 ==
    HeaderFormatted =>
        LET header  == resultRows[1]
            Named   == { i \in 1..Len(header) : ~header[i].nil }
            Labeled == { i \in Named : ~HasPrefix(header[i].v, "_col") }
            Rest    == { i \in Named \ Labeled : header[i].v # "_col0" }
        IN  ShowsColumns(IF Labeled # {} THEN Labeled
                         ELSE IF Rest # {} THEN Rest ELSE Named)

\* the analysis formatter met _col1 at position 0 and _col0 after it, and
\* kept the first
C23_Witness ==
    /\ formatMode = "analysis"
    /\ Len(resultRows) = 3
    /\ Len(resultRows[1]) = 2
    /\ resultRows[1][1].v = "_col1"
    /\ resultRows[1][2].v = "_col0"
    /\ colIndices = <<1>>
    /\ Contains(formatted, "_col1")
    /\ ~Contains(formatted, "_col0")

\* the lengths of the header line, the separator line and the data lines of
\* the table in formatted: the lines after the opening fence, as many as the
\* table has
TableLineLengths ==
    LET ends    == { i \in 1..Len(formatted) : CharAt(formatted, i) = "\n" }
        rank(e) == Cardinality({ x \in ends : x <= e })
        prev(e) == CHOOSE x \in ends : x < e /\ \A y \in ends : y < e => y <= x
    IN  { e - prev(e) - 1 : e \in { x \in ends : rank(x) \in 2..(3 + RenderedDataRows) } }

\* C30: every line formatAthenaResults renders, the header, the separator
\* and each data row, has the same length, the sum over the displayed
\* columns of the column width plus 2, also when a cell is rendered as NULL
\* or as N/A.
C30_LinesOfEqualLength ==
    TableRendered =>
        LET maxRows == IF Len(resultRows) > DisplayRowCap
                       THEN DisplayRowCap ELSE Len(resultRows)
            widths  == ColWidths(resultRows, colIndices, maxRows)
            RECURSIVE Sum(_)
            Sum(c)  == IF c > Len(widths) THEN 0 ELSE widths[c] + 2 + Sum(c + 1)
        IN  TableLineLengths = { Sum(1) }

(* Properties of runAthenaQuery: the completion signal and the deadline *)

\* a status fetch returned SUCCEEDED to the polling goroutine
ObservedSucceeded == \E i \in DOMAIN statusLog : statusLog[i].state = "SUCCEEDED"

\* C24: once the polling goroutine has observed SUCCEEDED, runAthenaQuery
\* never returns the timed-out outcome and issues no StopQueryExecution call
\* from then on, however the closing of doneCh and the deadline interleave.
C24_SuccessNeverTimesOut ==
    /\ [](ObservedSucceeded /\ ret.returned => ret.errMsg # TimedOutMsg)
    /\ [][LET Stops(c) == Cardinality({ i \in DOMAIN c :
                                          c[i].op = "StopQueryExecution" })
           IN  ObservedSucceeded => Stops(calls') = Stops(calls)]_vars

\* C25: the backend calls of one invocation are ordered: the submission is
\* the first call, every status fetch is issued after a submission that
\* succeeded, the result fetch is issued only after a status fetch returned
\* SUCCEEDED, the cancel call is issued only after queryContext was done,
\* and the result fetch and the cancel call never both occur.
C25_BackendCallsOrdered ==
    [][LET Issued(op) == /\ Len(calls') = Len(calls) + 1
                         /\ calls'[Len(calls')].op = op
       IN  /\ calls' # calls =>
                  \E op \in {"StartQueryExecution", "GetQueryExecution",
                              "GetQueryResults", "StopQueryExecution"} : Issued(op)
           /\ Issued("StartQueryExecution") => calls = <<>>
           /\ Issued("GetQueryExecution") =>
                  /\ NumCalls("StartQueryExecution") = 1
                  /\ qid # ""
                  /\ calls'[Len(calls')].arg = qid
           /\ Issued("GetQueryResults") =>
                  /\ ObservedSucceeded
                  /\ NumCalls("GetQueryResults") = 0
                  /\ NumCalls("StopQueryExecution") = 0
           /\ Issued("StopQueryExecution") =>
                  /\ ctxErr # ""
                  /\ NumCalls("StopQueryExecution") = 0
                  /\ NumCalls("GetQueryResults") = 0]_vars

\* a successful invocation that polled twice and fetched its results after
\* the deadline had fired
C25_Witness ==
    /\ Len(calls) = 4
    /\ calls[2].op = "GetQueryExecution"
    /\ calls[3].op = "GetQueryExecution"
    /\ calls[4].op = "GetQueryResults"
    /\ Len(statusLog) = 2
    /\ statusLog[2].state = "SUCCEEDED"
    /\ ctxErr = "deadline"
    /\ ret.returned
    /\ ret.errMsg = ""

\* the polling goroutine was started and has not returned
Polling == ppc \notin {"none", "exited"}

\* C26: in every execution that reached submission the polling goroutine
\* eventually returns and closes doneCh, whether the caller returns by
\* completion or by timeout.
C26_PollingTerminates == Polling ~> (ppc = "exited" /\ doneCh)

\* the caller returned by timeout while the polling goroutine waited for a
\* status, and the goroutine returned after it
C26_Witness ==
    /\ ppc = "exited"
    /\ doneCh
    /\ ret.returned
    /\ ret.errMsg = TimedOutMsg
    /\ Len(statusLog) = MaxAttempts
    /\ Len(ctxAtFetch) = MaxAttempts
    /\ ctxAtFetch[MaxAttempts] # ""

\* the ctx passed to runAthenaQuery was cancelled while queryContext was
\* live, or before it was derived, and the polling goroutine has not
\* finished
CancelledWhilePolling ==
    /\ parentDone
    /\ ctxErr = "canceled"
    /\ mpc # "returned"
    /\ ~doneCh

\* C27: when the caller's ctx is cancelled before the 45 seconds have
\* elapsed and before the polling goroutine finished, runAthenaQuery stops
\* waiting, calls StopQueryExecution for the execution and returns the
\* timed-out outcome.
C27_CancellationYieldsTimedOut ==
    CancelledWhilePolling ~>
        /\ ret.returned
        /\ ret.errMsg = TimedOutMsg
        /\ NumCalls("StopQueryExecution") = 1

(* Properties of the caches: failed deliveries and duplicates *)

\* C28: postToSlack records the signature of the message before it tries to
\* deliver it, so a call that fails (no token, a transport error, an API
\* error) leaves the signature recorded with the time of the call, and an
\* identical message to the same channel less than 3 minutes later is
\* suppressed: the call returns nil and no delivery is attempted.
C28_FailedDeliveryStillSuppresses ==
    [][SlackCheckStep =>
         LET h      == msgHash(req.channel, slackMsg)
             call   == effects'[Len(effects) + 1]
             failed == call.result \notin {"", "suppressed"}
         IN  /\ call.op = "postToSlack"
             /\ failed =>
                    /\ h \in DOMAIN recentSlackMessages'
                    /\ recentSlackMessages'[h] = now
             /\ slackToken = "" => call.result # ""
             /\ (h \in DOMAIN recentSlackMessages /\ now - recentSlackMessages[h] < 180) =>
                    /\ call.result = "suppressed"
                    /\ Len(effects') = Len(effects) + 1
                    /\ resp'.code = 200
      ]_vars

\* a process without a token, whose first delivery therefore failed, met
\* the same message again 5 seconds later and suppressed it
C28_Witness ==
    /\ slackToken = ""
    /\ invocations = 2
    /\ HandlerReturned
    /\ now = 1005
    /\ PostResults = {"suppressed"}
    /\ EffectsOf("chat.postMessage") = {}
    /\ recentSlackMessages[msgHash(req.channel, slackMsg)] = 1000

\* the step is a handler entry that answers with the body given
AnsweredAtEntry(body) ==
    /\ hpc = "idle"
    /\ invocations' = invocations + 1
    /\ resp' = response(200, body)

\* the step is a postToSlack call that suppressed its message
SuppressedStep ==
    /\ SlackCheckStep
    /\ effects'[Len(effects) + 1].result = "suppressed"

\* C29: a dedup check that reports a duplicate leaves its cache as it was,
\* timestamps included, and runs no eviction; a timestamp of the
\* recent-query cache and of the outbound-notification cache is written only
\* when the key is accepted, so the window is measured from the last
\* accepted occurrence, and a key whose last accepted occurrence is one
\* window old is accepted again.
C29_DuplicateLeavesCacheUnchanged ==
    [][ /\ AnsweredAtEntry("duplicate event") =>
               /\ EventKey(req') \in processedEvents
               /\ UNCHANGED <<processedEvents, recentQueries, recentSlackMessages>>
        /\ AnsweredAtEntry("duplicate query ignored") =>
               /\ QueryKey(req') \in DOMAIN recentQueries
               /\ now - recentQueries[QueryKey(req')] < QueryWindowSeconds
               /\ UNCHANGED <<recentQueries, recentSlackMessages>>
        /\ SuppressedStep =>
               /\ msgHash(req.channel, slackMsg) \in DOMAIN recentSlackMessages
               /\ now - recentSlackMessages[msgHash(req.channel, slackMsg)]
                      < SlackWindowSeconds
               /\ UNCHANGED <<processedEvents, recentQueries, recentSlackMessages>>
        /\ \A k \in DOMAIN recentQueries' :
               (k \notin DOMAIN recentQueries \/ recentQueries'[k] # recentQueries[k]) =>
                   /\ QueryCheckStep
                   /\ hpc' = "generate"
                   /\ k = QueryKey(req')
                   /\ recentQueries'[k] = now
        /\ \A k \in DOMAIN recentSlackMessages' :
               (k \notin DOMAIN recentSlackMessages
                  \/ recentSlackMessages'[k] # recentSlackMessages[k]) =>
                   /\ SlackCheckStep
                   /\ ~SuppressedStep
                   /\ k = msgHash(req.channel, slackMsg)
                   /\ recentSlackMessages'[k] = now
        /\ ( /\ QueryCheckStep
             /\ QueryKey(req') \in DOMAIN recentQueries
             /\ now - recentQueries[QueryKey(req')] >= QueryWindowSeconds ) =>
               /\ hpc' = "generate"
               /\ recentQueries'[QueryKey(req')] = now
        /\ ( /\ SlackCheckStep
             /\ msgHash(req.channel, slackMsg) \in DOMAIN recentSlackMessages
             /\ now - recentSlackMessages[msgHash(req.channel, slackMsg)]
                    >= SlackWindowSeconds ) =>
               /\ ~SuppressedStep
               /\ recentSlackMessages'[msgHash(req.channel, slackMsg)] = now
      ]_vars

\* a question accepted at 1000 came again at 1004 and was reported as a
\* duplicate, and its timestamp is still 1000
C29_Witness ==
    /\ invocations = 2
    /\ HandlerReturned
    /\ resp = response(200, "duplicate query ignored")
    /\ now = 1004
    /\ recentQueries[QueryKey(req)] = 1000
====
